---- MODULE Spec2Model ----
(***************************************************************************)
(* The frame pacing protocol of bonfire: the RedrawRequested handler of    *)
(* main.rs driving Device (device.rs), CommandRingBuffer                   *)
(* (command_ring_buffer.rs) and Swapchain (swapchain.rs), against the      *)
(* graphics queue and the presentation engine.                             *)
(*                                                                         *)
(* The CPU side is translated from the source.  The GPU side is the        *)
(* environment the code runs against: one graphics queue that starts a     *)
(* submission once its semaphore waits are satisfied and performs the      *)
(* signal operations of its submissions in submission order (the order     *)
(* Vulkan defines for the semaphore signal operations of one queue), and   *)
(* a presentation engine that hands out any free image, signals the        *)
(* acquire semaphore some time later, consumes the present semaphore and   *)
(* releases the image some time after that.  A batch is the unit: its      *)
(* signal operations mark its completion, pipeline stage masks are not     *)
(* distinguished.                                                          *)
(*                                                                         *)
(* Spec is the program as main.rs runs it.  SurfaceSpec is the same        *)
(* program on a surface the window system changes under the swap chain.    *)
(* RingSpec drives a CommandRingBuffer alone, built with any counts and    *)
(* used from any thread_index.  ConstructSpec runs the constructions of    *)
(* App::resumed on any physical device and surface, with any one native    *)
(* call failing.  ResizeSpec resizes the swap chain of the constructed     *)
(* program on a surface whose size the window system changes.              *)
(* SelectSpec selects the physical device from any enumeration.            *)
(* ShutdownSpec is Spec with the window closed between two frames and the  *)
(* Renderer dropped.  ReaderSpec is RingSpec with a second thread loading  *)
(* the frame counter.  CursorSpec takes buffers from a ring of the largest *)
(* capacities until a pool is exhausted.                                   *)
(***************************************************************************)
EXTENDS Integers, Sequences, FiniteSets, TLC

\* ------------------------------------------------------------- constants
FRAMES_IN_FLIGHT == 2

primary_buffers_per_pool == 1

secondary_buffers_per_pool == 0

\* u8::MAX, the largest per-pool count the cursors can hold
u8_MAX == 255

\* ---------------------------------------------------------------- bounds
\* frames the driver may start
MaxFrames == 5

\* largest number of images the platform returns for one swap chain
MaxImages == 3

\* swap-chain recreations
MaxResizes == 1

\* frames in which the window system may change the surface
SurfaceFrames == 1

\* threads a ring under test is built for
MaxThreads == 2

\* per-pool buffer counts a ring under test is built with, besides those around u8_MAX
MaxCap == 2

\* buffers one pool of a ring under test hands out between two resets
MaxCalls == 3

\* frames a ring under test is driven through
RingFrames == 2

\* queue families of a physical device
MaxFamilies == 3

\* extensions and features a physical device lacks
MaxMissing == 1

\* width and height of a surface, in units of the smallest size above zero
MaxExtent == 2

\* physical devices the instance enumerates
MaxAdapters == 3

\* frames displayed before the window is closed
ShutdownFrames == 2

VARIABLES
    absolute_frame_index,        \* Device.absolute_frame_index
    graphics_timeline_semaphore, \* the value of Device.graphics_timeline_semaphore
    ring,                        \* the CommandRingBufferBuilder, then the ring it built
    caller_thread,               \* the thread_index the ring's user passes
    used_primary_offset,         \* CommandRingBuffer.used_primary_offset
    used_secondary_offset,       \* CommandRingBuffer.used_secondary_offset
    raw,                         \* Swapchain.raw: the live swap chain (its generation)
    images,                      \* Swapchain.images
    syncs,                       \* Swapchain.syncs
    sync_index,                  \* Swapchain.sync_index
    old_swapchain,               \* Swapchain.desc.old_swapchain: <<>> or <<handle>>
    new_swapchain,               \* local of Swapchain::resize: <<>> or <<handle>>
    swapchains,                  \* platform: the swap chains created so far, by handle
    surface,                     \* platform: how the surface stands to the swap chain
    res,                         \* local of present_image: the result of queue_present
    acquire_signal,              \* state of each acquire semaphore
    present_signal,              \* state of each present semaphore
    image_state,                 \* presentation engine: state of each image of raw
    presents,                    \* presentation engine: queued present requests
    submissions,                 \* graphics queue: the batches submitted so far
    pc,                          \* the call the RedrawRequested handler makes next
    swapchain_image,             \* local of the handler: <<>> or <<SwapchainImage>>
    command_buffer,              \* local of the handler: <<>> or <<buffer>>
    finish_frame_calls,          \* history: calls of Device::finish_frame so far
    frame_trace,                 \* history: the calls made in the current frame
    last_op,                     \* history: the last ring operation and its outcome
    handed_primary,              \* history: primary buffers handed out since the pool's reset
    handed_secondary,            \* history: secondary buffers handed out since the reset
    physical_device,             \* platform: what the physical device supports
    device,                      \* what DeviceBuilder::build returned
    surface_support,             \* platform: what the surface supports
    desc,                        \* SwapchainDesc: format and vsync
    create_info,                 \* <<>> or <<the create_info last built>>
    construction,                \* history: the last construction and how it ended
    physical_devices,            \* platform: the device_type of each physical device
    selection,                   \* what PhysicalDeviceSelector::select returned
    drop_stack,                  \* drop glue: what is still to be dropped, first first
    dropped,                     \* history: the destroy calls and Arc releases so far
    observed                     \* second thread: <<>> or <<the frame index it loaded last>>

vars == <<absolute_frame_index, graphics_timeline_semaphore, used_primary_offset,
          used_secondary_offset, raw, images, syncs, sync_index, acquire_signal,
          present_signal, image_state, presents, submissions, pc, swapchain_image,
          command_buffer, finish_frame_calls, frame_trace, ring, caller_thread, last_op,
          handed_primary, handed_secondary, old_swapchain, new_swapchain, swapchains,
          surface, res, physical_device, device, surface_support, desc, create_info,
          construction, physical_devices, selection, drop_stack, dropped, observed>>

device_vars == <<absolute_frame_index>>
ring_vars == <<ring, caller_thread, used_primary_offset, used_secondary_offset, last_op,
               handed_primary, handed_secondary>>
swapchain_vars == <<raw, images, syncs, sync_index>>
engine_vars == <<acquire_signal, present_signal, image_state, presents>>
history_vars == <<finish_frame_calls, frame_trace>>
resize_vars == <<old_swapchain, new_swapchain>>
platform_vars == <<swapchains, surface>>
construction_vars == <<physical_device, device, surface_support, desc, create_info,
                       construction>>
selection_vars == <<physical_devices, selection>>
shutdown_vars == <<drop_stack, dropped>>
reader_vars == <<observed>>

\* ------------------------------------------------------------- helpers
ImageCounts == 2..MaxImages

\* CommandRingBufferBuilder.num_threads as main.rs sets it: num_pools(FRAMES_IN_FLIGHT)
num_threads == FRAMES_IN_FLIGHT

\* CommandRingBufferBuilder::build: num_pools = num_threads * FRAMES_IN_FLIGHT
num_pools == num_threads * FRAMES_IN_FLIGHT

\* Swapchain::new: the images of swap chain r, n of them
new_images(r, n) == [i \in 0..(n - 1) |-> <<r, i>>]

\* Swapchain::new: one (acquire, present) semaphore pair per image
new_syncs(n) == [i \in 0..(n - 1) |-> [acquire_semaphore |-> i, present_semaphore |-> i]]

len(v) == Cardinality(DOMAIN v)

\* vkCreateSwapchainKHR: what the platform keeps of a swap chain it created
created(n, previous) ==
    [count |-> n, destroyed |-> FALSE, previous |-> previous,
     previous_live |-> \A h \in {previous[i] : i \in DOMAIN previous} :
                          ~swapchains[h].destroyed]

\* the surface conditions under which the platform refuses to hand out or show an image
SurfaceErrors == {"out_of_date", "lost"}

\* vkQueuePresentKHR: the VkResult for a surface condition
queue_present(condition) ==
    CASE condition = "current" -> "SUCCESS"
      [] condition = "suboptimal" -> "SUBOPTIMAL_KHR"
      [] condition = "out_of_date" -> "ERROR_OUT_OF_DATE_KHR"
      [] OTHER -> "ERROR_SURFACE_LOST_KHR"

\* -------------------------------------------------------------- Device
\* mutant: the load returns the low half of the counter only
load_low_half(counter) == counter % 2

\* Device::absolute_frame_index: absolute_frame_index.load(Ordering::Acquire), one
\* atomic read of the whole counter
load(counter) == counter

\* mutant: the wait starts one frame late
begin_frame_waits_late(frame) == frame > FRAMES_IN_FLIGHT

\* Device::begin_frame: the call waits only from frame FRAMES_IN_FLIGHT on
begin_frame_waits(frame) == frame >= FRAMES_IN_FLIGHT

\* mutant: the wait value without the + 1
wait_value_one_less(frame) == frame - FRAMES_IN_FLIGHT

\* Device::begin_frame: the value of the pacing semaphore it waits for
wait_value(frame) == frame - FRAMES_IN_FLIGHT + 1

\* mutant: the wait asks for more than wait_value
begin_frame_returns_strict(frame) ==
    frame >= FRAMES_IN_FLIGHT =>
        graphics_timeline_semaphore > frame - FRAMES_IN_FLIGHT + 1

\* Device::begin_frame returns once vkWaitSemaphores(wait_value, u64::MAX) does
begin_frame_returns(frame) ==
    begin_frame_waits(frame) => graphics_timeline_semaphore >= wait_value(frame)

\* mutant: the counter advances by the ring depth
finish_frame_by_depth(counter) == counter + FRAMES_IN_FLIGHT

\* Device::finish_frame: fetch_add(1)
finish_frame(counter) == counter + 1

\* Device::frame_index, as CommandRingBuffer calls it: the current frame slot
frame_index == absolute_frame_index % FRAMES_IN_FLIGHT

\* --------------------------------------------------- CommandRingBuffer
\* CommandRingBufferBuilder: the counts a builder holds
builder(threads, primary, secondary) ==
    [status |-> "builder", num_threads |-> threads, command_pools |-> 0,
     primary_buffers |-> 0, secondary_buffers |-> 0,
     primary_buffers_per_pool |-> primary, secondary_buffers_per_pool |-> secondary]

\* mutant: the primary limit excludes u8::MAX itself
build_accepts_below_max(b) ==
    /\ b.num_threads > 0
    /\ b.primary_buffers_per_pool > 0
    /\ b.primary_buffers_per_pool < u8_MAX
    /\ b.secondary_buffers_per_pool <= u8_MAX

\* CommandRingBufferBuilder::build: its four assertions
build_accepts(b) ==
    /\ b.num_threads > 0
    /\ b.primary_buffers_per_pool > 0
    /\ b.primary_buffers_per_pool <= u8_MAX
    /\ b.secondary_buffers_per_pool <= u8_MAX

\* CommandRingBufferBuilder::build: the ring it returns, the counts cast to u8
build(b) ==
    [status |-> "built", num_threads |-> b.num_threads,
     command_pools |-> b.num_threads * FRAMES_IN_FLIGHT,
     primary_buffers |-> b.num_threads * FRAMES_IN_FLIGHT * b.primary_buffers_per_pool,
     secondary_buffers |-> b.num_threads * FRAMES_IN_FLIGHT * b.secondary_buffers_per_pool,
     primary_buffers_per_pool |-> b.primary_buffers_per_pool % (u8_MAX + 1),
     secondary_buffers_per_pool |-> b.secondary_buffers_per_pool % (u8_MAX + 1)]

\* CommandRingBufferBuilder::build: vec![0; num_pools]
zero_offsets(r) == [p \in 0..(r.command_pools - 1) |-> 0]

\* mutant: the slot is multiplied, the thread added
pool_from_indices_swapped(frame, thread_index) == frame * FRAMES_IN_FLIGHT + thread_index

pool_from_indices(frame, thread_index) == thread_index * FRAMES_IN_FLIGHT + frame

\* mutant: the assertion lets the cursor reach one past the capacity
primary_available_inclusive(pool_index) ==
    used_primary_offset[pool_index] <= ring.primary_buffers_per_pool

\* get_next_primary_buffer: assert!(used_primary_offset < primary_buffers_per_pool)
primary_available(pool_index) ==
    used_primary_offset[pool_index] < ring.primary_buffers_per_pool

\* mutant: the assertion lets the secondary cursor reach one past the capacity
secondary_available_inclusive(pool_index) ==
    used_secondary_offset[pool_index] <= ring.secondary_buffers_per_pool

\* get_next_secondary_buffer: assert!(used_secondary_offset < secondary_buffers_per_pool)
secondary_available(pool_index) ==
    used_secondary_offset[pool_index] < ring.secondary_buffers_per_pool

\* what a ring operation leaves behind for the claims: the pool it addressed, whether it
\* returned, and the index of the buffer it returned
outcome(op, thread_index, pool_index, ok, cmd_index) ==
    [op |-> op, thread_index |-> thread_index, pool_index |-> pool_index, ok |-> ok,
     cmd_index |-> cmd_index]

\* mutant: the cursor is left out of the index
buffer_index_first_of_pool(pool_index, per_pool, offset) == pool_index * per_pool

\* get_next_primary_buffer, get_next_secondary_buffer: cmd_index
buffer_index(pool_index, per_pool, offset) == pool_index * per_pool + offset

\* mutant: the cursor of every pool is set to zero
reset_offset_all(offsets, pool_index) == [p \in DOMAIN offsets |-> 0]

\* reset_pool: self.used_primary_offset[pool_index] = 0, and the same for the secondary
reset_offset(offsets, pool_index) == [offsets EXCEPT ![pool_index] = 0]

\* CommandRingBuffer::reset_pool
reset_pool(thread_index) ==
    LET pool_index == pool_from_indices(frame_index, thread_index)
    IN  IF pool_index \in DOMAIN used_primary_offset
        THEN /\ used_primary_offset' = reset_offset(used_primary_offset, pool_index)
             /\ used_secondary_offset' = reset_offset(used_secondary_offset, pool_index)
             /\ handed_primary' = [handed_primary EXCEPT ![pool_index] = 0]
             /\ handed_secondary' = [handed_secondary EXCEPT ![pool_index] = 0]
             /\ last_op' = outcome("reset_pool", thread_index, pool_index, TRUE, 0)
             /\ UNCHANGED <<ring, caller_thread>>
        ELSE /\ last_op' = outcome("reset_pool", thread_index, pool_index, FALSE, 0)
             /\ UNCHANGED <<ring, caller_thread, used_primary_offset, used_secondary_offset,
                            handed_primary, handed_secondary>>

\* CommandRingBuffer::get_next_primary_buffer
get_next_primary_buffer(thread_index) ==
    LET pool_index == pool_from_indices(frame_index, thread_index)
    IN  IF pool_index \in DOMAIN used_primary_offset /\ primary_available(pool_index)
        THEN /\ last_op' =
                    outcome("get_next_primary_buffer", thread_index, pool_index, TRUE,
                            buffer_index(pool_index, ring.primary_buffers_per_pool,
                                         used_primary_offset[pool_index]))
             /\ used_primary_offset' =
                    [used_primary_offset EXCEPT
                        ![pool_index] = (@ + 1) % (u8_MAX + 1)]
             /\ handed_primary' = [handed_primary EXCEPT ![pool_index] = @ + 1]
             /\ UNCHANGED <<ring, caller_thread, used_secondary_offset, handed_secondary>>
        ELSE /\ last_op' =
                    outcome("get_next_primary_buffer", thread_index, pool_index, FALSE, 0)
             /\ UNCHANGED <<ring, caller_thread, used_primary_offset, used_secondary_offset,
                            handed_primary, handed_secondary>>

\* CommandRingBuffer::get_next_secondary_buffer
get_next_secondary_buffer(thread_index) ==
    LET pool_index == pool_from_indices(frame_index, thread_index)
    IN  IF pool_index \in DOMAIN used_secondary_offset /\ secondary_available(pool_index)
        THEN /\ last_op' =
                    outcome("get_next_secondary_buffer", thread_index, pool_index, TRUE,
                            buffer_index(pool_index, ring.secondary_buffers_per_pool,
                                         used_secondary_offset[pool_index]))
             /\ used_secondary_offset' =
                    [used_secondary_offset EXCEPT
                        ![pool_index] = (@ + 1) % (u8_MAX + 1)]
             /\ handed_secondary' = [handed_secondary EXCEPT ![pool_index] = @ + 1]
             /\ UNCHANGED <<ring, caller_thread, used_primary_offset, handed_primary>>
        ELSE /\ last_op' =
                    outcome("get_next_secondary_buffer", thread_index, pool_index, FALSE, 0)
             /\ UNCHANGED <<ring, caller_thread, used_primary_offset, used_secondary_offset,
                            handed_primary, handed_secondary>>

\* --------------------------------------------- frame driver (main.rs)
\* mutant: finish_frame is called before the submission
RedrawOrder_finish_before_submit ==
    <<"begin_frame", "acquire_next_image", "reset_pool", "get_next_primary_buffer",
      "record", "finish_frame", "submit", "present_image">>

\* mutant: the pool is reset and the buffer taken before the image is acquired
RedrawOrder_reset_before_acquire ==
    <<"begin_frame", "reset_pool", "get_next_primary_buffer", "acquire_next_image",
      "record", "submit", "present_image", "finish_frame">>

\* the calls of the RedrawRequested handler, in program order
RedrawOrder ==
    <<"begin_frame", "acquire_next_image", "reset_pool", "get_next_primary_buffer",
      "record", "submit", "present_image", "finish_frame">>

\* the call that follows call c in the handler; after the last one the handler returns
NextCall(c) ==
    LET k == CHOOSE i \in 1..Len(RedrawOrder) : RedrawOrder[i] = c
    IN  IF k < Len(RedrawOrder) THEN RedrawOrder[k + 1] ELSE "idle"

\* mutant: the pacing wait is added one frame late
wait_semaphores_late(image, frame) ==
    {[kind |-> "acquire", id |-> image.sync.acquire_semaphore, value |-> 0]}
    \cup (IF frame > FRAMES_IN_FLIGHT
          THEN {[kind |-> "timeline", id |-> 0, value |-> frame - FRAMES_IN_FLIGHT + 1]}
          ELSE {})

\* main.rs: the semaphores the submission of `frame` waits on
wait_semaphores(image, frame) ==
    {[kind |-> "acquire", id |-> image.sync.acquire_semaphore, value |-> 0]}
    \cup (IF frame >= FRAMES_IN_FLIGHT
          THEN {[kind |-> "timeline", id |-> 0, value |-> frame - FRAMES_IN_FLIGHT + 1]}
          ELSE {})

\* mutant: the pacing semaphore is signaled one value ahead
signal_semaphores_ahead(image, frame) ==
    {[kind |-> "present", id |-> image.sync.present_semaphore, value |-> 0],
     [kind |-> "timeline", id |-> 0, value |-> frame + 2]}

\* mutant: the pacing semaphore is signaled with the frame slot instead of the frame
signal_semaphores_slot(image, frame) ==
    {[kind |-> "present", id |-> image.sync.present_semaphore, value |-> 0],
     [kind |-> "timeline", id |-> 0, value |-> (frame % FRAMES_IN_FLIGHT) + 1]}

\* main.rs: the semaphores the submission of `frame` signals
signal_semaphores(image, frame) ==
    {[kind |-> "present", id |-> image.sync.present_semaphore, value |-> 0],
     [kind |-> "timeline", id |-> 0, value |-> frame + 1]}

\* ------------------------------------------- construction: the Device
\* the device extensions a physical device may support: the required ones and another
DeviceExtensions ==
    {"VK_KHR_swapchain", "VK_KHR_timeline_semaphore", "VK_EXT_descriptor_indexing",
     "VK_KHR_synchronization2", "VK_KHR_ray_query"}

\* the vk::QueueFlags DeviceBuilder::build looks at
QueueFlags == {"GRAPHICS", "COMPUTE", "TRANSFER"}

\* the device extensions DeviceBuilder::build requires
required_extensions_swapchain_only == {"VK_KHR_swapchain"}

required_extensions ==
    {"VK_KHR_swapchain", "VK_KHR_timeline_semaphore", "VK_EXT_descriptor_indexing",
     "VK_KHR_synchronization2"}

\* the features DeviceBuilder::build asserts once the logical device is created
asserted_features_timeline_only == {"timeline_semaphore"}

asserted_features ==
    {"timeline_semaphore",
     "shader_uniform_texel_buffer_array_dynamic_indexing",
     "shader_storage_texel_buffer_array_dynamic_indexing",
     "shader_sampled_image_array_non_uniform_indexing",
     "shader_storage_image_array_non_uniform_indexing",
     "shader_uniform_texel_buffer_array_non_uniform_indexing",
     "shader_storage_texel_buffer_array_non_uniform_indexing",
     "descriptor_binding_sampled_image_update_after_bind",
     "descriptor_binding_update_unused_while_pending",
     "descriptor_binding_partially_bound",
     "descriptor_binding_variable_descriptor_count",
     "runtime_descriptor_array"}

\* some of the features get_physical_device_features2 fills in through the three chained
\* structs: the asserted ones and three that are enabled but never asserted
features2 ==
    {"timeline_semaphore",
     "shader_input_attachment_array_dynamic_indexing",
     "shader_uniform_texel_buffer_array_dynamic_indexing",
     "shader_storage_texel_buffer_array_dynamic_indexing",
     "shader_sampled_image_array_non_uniform_indexing",
     "shader_storage_image_array_non_uniform_indexing",
     "shader_uniform_texel_buffer_array_non_uniform_indexing",
     "shader_storage_texel_buffer_array_non_uniform_indexing",
     "descriptor_binding_sampled_image_update_after_bind",
     "descriptor_binding_storage_image_update_after_bind",
     "descriptor_binding_update_unused_while_pending",
     "descriptor_binding_partially_bound",
     "descriptor_binding_variable_descriptor_count",
     "runtime_descriptor_array",
     "synchronization2"}

\* Option<T>: None is <<>>, Some(v) is <<v>>
unwrap_or(option, default) == IF option = <<>> THEN default ELSE option[1]

\* the three Option<u32> before the loop over the queue families
\* mutant: the graphics index starts as family 0 and not as None
no_queue_family_zero == [graphics |-> <<0>>, compute |-> <<>>, transfer |-> <<>>]

no_queue_family == [graphics |-> <<>>, compute |-> <<>>, transfer |-> <<>>]

\* one pass of the loop over queue_family_properties
queue_family_step_compute_any(found, index, queue_flags) ==
    LET supports_graphics == "GRAPHICS" \in queue_flags
        supports_compute == "COMPUTE" \in queue_flags
        supports_transfer == "TRANSFER" \in queue_flags
    IN  [graphics |-> IF supports_graphics /\ found.graphics = <<>>
                      THEN <<index>> ELSE found.graphics,
         compute |-> IF supports_compute /\ found.compute = <<>>
                     THEN <<index>> ELSE found.compute,
         transfer |-> IF ~supports_graphics /\ ~supports_compute /\ supports_transfer
                         /\ found.transfer = <<>>
                      THEN <<index>> ELSE found.transfer]

queue_family_step(found, index, queue_flags) ==
    LET supports_graphics == "GRAPHICS" \in queue_flags
        supports_compute == "COMPUTE" \in queue_flags
        supports_transfer == "TRANSFER" \in queue_flags
    IN  [graphics |-> IF supports_graphics /\ found.graphics = <<>>
                      THEN <<index>> ELSE found.graphics,
         compute |-> IF ~supports_graphics /\ supports_compute /\ found.compute = <<>>
                     THEN <<index>> ELSE found.compute,
         transfer |-> IF ~supports_graphics /\ ~supports_compute /\ supports_transfer
                         /\ found.transfer = <<>>
                      THEN <<index>> ELSE found.transfer]

\* for (index, properties) in queue_family_properties.iter().enumerate()
RECURSIVE find_queue_families(_, _, _)
find_queue_families(queue_family_properties, index, found) ==
    IF index >= Len(queue_family_properties)
    THEN found
    ELSE find_queue_families(queue_family_properties, index + 1,
             queue_family_step(found, index, queue_family_properties[index + 1]))

\* HashSet::insert on the indices kept so far
insert_push(unique, value) == Append(unique, value)

insert(unique, value) ==
    IF \E i \in 1..Len(unique) : unique[i] = value THEN unique ELSE Append(unique, value)

\* unique_queue_indices after the three inserts
unique_queue_indices(graphics, compute, transfer) ==
    insert(insert(insert(<<>>, graphics), compute), transfer)

\* unique_queue_indices.into_iter(): the kept indices in any order
into_iter(unique) ==
    {q \in [1..Len(unique) -> {unique[i] : i \in 1..Len(unique)}] :
        \A i \in 1..Len(unique) :
            Cardinality({j \in 1..Len(q) : q[j] = unique[i]}) =
            Cardinality({j \in 1..Len(unique) : unique[j] = unique[i]})}

\* a native call that can fail, and the native objects it creates when it does not
native(call, creates) == [call |-> call, creates |-> creates]

\* what a construction leaves live when its fail-th fallible call returns an error:
\* `?` returns at once, and nothing the earlier calls created is destroyed
left_live(calls, fail) == UNION {calls[i].creates : i \in 1..(fail - 1)}

\* the fallible native calls of DeviceBuilder::build, in the order it makes them
device_calls ==
    <<native("enumerate_device_extension_properties", {}),
      native("create_device", {<<"device", 0>>})>>
    \o [i \in 1..(2 * FRAMES_IN_FLIGHT) |->
           IF i % 2 = 1
           THEN native("create_command_pool", {<<"command_pool", (i - 1) \div 2>>})
           ELSE native("allocate_command_buffers", {<<"command_buffer", (i - 1) \div 2>>})]
    \o <<native("create_semaphore", {<<"timeline_semaphore", 0>>})>>

\* DeviceBuilder::build returning without a Device
no_device(status, error, live) ==
    [status |-> status, error |-> error, graphics_queue |-> <<>>, compute_queue |-> <<>>,
     transfer_queue |-> <<>>, unique_queue_indices |-> <<>>, live |-> live]

\* DeviceBuilder::build on a physical device, its fail-th fallible call failing (0: none)
DeviceBuilder_build(pd, fail) ==
    LET found == find_queue_families(pd.queue_family_properties, 0, no_queue_family)
        graphics == unwrap_or(found.graphics, 0)
        compute == unwrap_or(found.compute, graphics)
        transfer == unwrap_or(found.transfer, graphics)
    IN  IF found.graphics = <<>>
        THEN no_device("err", "Failed to find graphics queue", {})
        ELSE IF fail = 1
        THEN no_device("err", "Failed to enumerate device extensions", {})
        ELSE IF ~(required_extensions \subseteq pd.supported_extensions)
        THEN no_device("err", "Device extension not supported", {})
        ELSE IF fail = 2
        THEN no_device("err", "Failed to create logical device", {})
        ELSE IF ~(asserted_features \subseteq pd.features)
        THEN no_device("panicked", "assertion failed", left_live(device_calls, 3))
        ELSE IF fail # 0
        THEN no_device("err", "vk::Result", left_live(device_calls, fail))
        ELSE [status |-> "ok", error |-> "", graphics_queue |-> <<graphics>>,
              compute_queue |-> <<compute>>, transfer_queue |-> <<transfer>>,
              unique_queue_indices |-> unique_queue_indices(graphics, compute, transfer),
              live |-> left_live(device_calls, Len(device_calls) + 1)]

\* the Device, or the error, DeviceBuilder::build returned, with the queue_create_info
\* it passed to create_device
device_of(d, queue_create_info) ==
    [status |-> d.status, error |-> d.error, graphics_queue |-> d.graphics_queue,
     compute_queue |-> d.compute_queue, transfer_queue |-> d.transfer_queue,
     queue_create_info |-> queue_create_info]

\* the last construction: whose it was, how it ended, the native objects it left live
constructed(of, status, error, live) ==
    [of |-> of, status |-> status, error |-> error, live |-> live]

\* the fallible native calls of CommandRingBufferBuilder::build, in order
ring_calls(b) ==
    LET pools == b.num_threads * FRAMES_IN_FLIGHT
        per_pool == IF b.secondary_buffers_per_pool > 0 THEN 2 ELSE 1
    IN  [i \in 1..pools |-> native("create_command_pool", {<<"command_pool", i - 1>>})]
        \o [i \in 1..(pools * per_pool) |->
               IF (i - 1) % per_pool = 0
               THEN native("allocate_command_buffers",
                           {<<"primary_buffers", (i - 1) \div per_pool>>})
               ELSE native("allocate_command_buffers",
                           {<<"secondary_buffers", (i - 1) \div per_pool>>})]

\* ---------------------------------------- construction: the Swapchain
\* the surface format RenderBackend::new asks for, and another one
B8G8R8A8_SRGB == "B8G8R8A8_SRGB"
SurfaceFormats == {B8G8R8A8_SRGB, "R8G8B8A8_UNORM"}

PresentModes == {"IMMEDIATE", "MAILBOX", "FIFO", "FIFO_RELAXED"}

\* u32::clamp(min, max)
clamp(v, min, max) == IF v < min THEN min ELSE IF v > max THEN max ELSE v

\* current_extent clamped to min_image_extent and max_image_extent, per component
clamped_extent(capabilities) ==
    [width |-> clamp(capabilities.current_extent.width,
                     capabilities.min_image_extent.width,
                     capabilities.max_image_extent.width),
     height |-> clamp(capabilities.current_extent.height,
                      capabilities.min_image_extent.height,
                      capabilities.max_image_extent.height)]

\* if extent.width == 0 && extent.height == 0 { bail!(..) }
extent_is_zero(extent) == extent.width = 0 /\ extent.height = 0

\* image_count: min_image_count + 1, brought down to a max_image_count that is not 0
image_count_unclamped(capabilities) == capabilities.min_image_count + 1

image_count(capabilities) ==
    IF capabilities.max_image_count > 0
       /\ capabilities.min_image_count + 1 > capabilities.max_image_count
    THEN capabilities.max_image_count
    ELSE capabilities.min_image_count + 1

\* present_mode_preference
present_mode_preference_swapped(vsync) ==
    IF vsync THEN <<"FIFO", "MAILBOX">> ELSE <<"IMMEDIATE", "FIFO_RELAXED">>

present_mode_preference(vsync) ==
    IF vsync THEN <<"MAILBOX", "FIFO">> ELSE <<"FIFO_RELAXED", "IMMEDIATE">>

\* .into_iter().find(|mode| present_modes.contains(mode)).unwrap_or(FIFO)
chosen_present_mode(vsync, present_modes) ==
    LET preference == present_mode_preference(vsync)
        hits == {i \in 1..Len(preference) : preference[i] \in present_modes}
    IN  IF hits = {}
        THEN "FIFO"
        ELSE preference[CHOOSE i \in hits : \A j \in hits : i <= j]

\* supported_surface_formats.contains(&surface_format)
format_supported_always(formats, format) == TRUE

format_supported(formats, format) == format \in formats

\* the fallible native calls of create_raw_swapchain, in order
raw_swapchain_calls ==
    <<native("get_physical_device_surface_capabilities", {}),
      native("get_physical_device_surface_present_modes", {}),
      native("create_swapchain", {<<"swapchain", 0>>})>>

\* the fallible native calls of Swapchain::new on a swap chain of n images, in order
swapchain_calls(n) ==
    raw_swapchain_calls
    \o <<native("get_swapchain_images", {})>>
    \o [i \in 1..(2 * n) |->
           IF i % 2 = 1
           THEN native("create_semaphore", {<<"acquire_semaphore", (i - 1) \div 2>>})
           ELSE native("create_semaphore", {<<"present_semaphore", (i - 1) \div 2>>})]

\* create_raw_swapchain returning an error
no_swapchain(error) == [status |-> "err", error |-> error, info |-> <<>>]

\* create_raw_swapchain on the surface as the platform reports it, its fail-th fallible
\* call failing (0: none): the SwapchainCreateInfoKHR it passes to create_swapchain
create_raw_swapchain(support, d, fail) ==
    LET extent == clamped_extent(support.capabilities)
    IN  IF fail = 1
        THEN no_swapchain("vk::Result")
        ELSE IF extent_is_zero(extent)
        THEN no_swapchain("Swapchain extent cannot be zero")
        ELSE IF fail \in {2, 3}
        THEN no_swapchain("vk::Result")
        ELSE [status |-> "ok", error |-> "",
              info |-> <<[min_image_count |-> image_count(support.capabilities),
                          image_format |-> d.format,
                          image_extent |-> extent,
                          present_mode |-> chosen_present_mode(d.vsync,
                                                               support.present_modes)]>>]

\* the images the platform creates for a create_info: at least min_image_count of them
platform_images(support, info) == info.min_image_count + support.extra_images

\* ------------------------------------- PhysicalDeviceSelector (physical_device.rs)
\* vk::PhysicalDeviceType
PhysicalDeviceTypes == {"OTHER", "INTEGRATED_GPU", "DISCRETE_GPU", "VIRTUAL_GPU", "CPU"}

\* the key of max_by_key: the match on properties.device_type
device_type_key(device_type) ==
    CASE device_type = "DISCRETE_GPU" -> 1000
      [] device_type = "INTEGRATED_GPU" -> 10
      [] OTHER -> 0

\* Iterator::max_by_key over physical_devices from position index on, best (a position)
\* being the maximum so far: of two elements with equal keys the later one is kept
RECURSIVE max_by_key(_, _, _)
max_by_key(enumerated, index, best) ==
    IF index > Len(enumerated)
    THEN best
    ELSE max_by_key(enumerated, index + 1,
             IF device_type_key(enumerated[best]) > device_type_key(enumerated[index])
             THEN best ELSE index)

\* PhysicalDeviceSelector::select on what enumerate_physical_devices returns; raw is the
\* 0-based position of the selected physical device in the enumeration
select(enumerated, enumerate_fails) ==
    IF enumerate_fails
    THEN [status |-> "err", error |-> "Failed to enumerate physical devices", raw |-> <<>>]
    ELSE IF enumerated = <<>>
    THEN [status |-> "err", error |-> "failed to find physical device", raw |-> <<>>]
    ELSE [status |-> "ok", error |-> "", raw |-> <<max_by_key(enumerated, 2, 1) - 1>>]

\* ------------------------------------------------------------ the state
\* the physical devices of the machine main.rs runs on
MainPhysicalDevices == <<"INTEGRATED_GPU", "DISCRETE_GPU">>

\* the physical device selected, nothing dropped, nothing loaded by a second thread
InitRunning ==
    /\ physical_devices = MainPhysicalDevices
    /\ selection = select(MainPhysicalDevices, FALSE)
    /\ drop_stack = <<>>
    /\ dropped = <<>>
    /\ observed = <<>>

\* the physical device, the surface and the desc main.rs runs on: one queue family for
\* everything, all that DeviceBuilder::build asks for, a surface never minimised
MainPhysicalDevice ==
    [queue_family_properties |-> <<QueueFlags>>,
     supported_extensions |-> DeviceExtensions,
     features |-> features2]

MainSupport ==
    [capabilities |-> [current_extent |-> [width |-> 1, height |-> 1],
                       min_image_extent |-> [width |-> 1, height |-> 1],
                       max_image_extent |-> [width |-> 1, height |-> 1],
                       min_image_count |-> 1,
                       max_image_count |-> 0],
     present_modes |-> {"FIFO"},
     formats |-> SurfaceFormats,
     extra_images |-> 0]

\* swapchain_desc of RenderBackend::new, with config.vsync as main.rs sets it
MainDesc == [format |-> B8G8R8A8_SRGB, vsync |-> TRUE]

\* what App::resumed constructed
InitConstructed ==
    /\ physical_device = MainPhysicalDevice
    /\ surface_support = MainSupport
    /\ desc = MainDesc
    /\ device = device_of(DeviceBuilder_build(MainPhysicalDevice, 0), <<0>>)
    /\ create_info = create_raw_swapchain(MainSupport, MainDesc, 0).info
    /\ construction = constructed("CommandRingBuffer", "ok", "", {})
    /\ InitRunning

\* App::resumed: the ring main.rs builds
InitRing ==
    LET r == build(builder(num_threads, primary_buffers_per_pool,
                           secondary_buffers_per_pool))
    IN  /\ ring = r
        /\ used_primary_offset = zero_offsets(r)
        /\ used_secondary_offset = zero_offsets(r)
        /\ handed_primary = zero_offsets(r)
        /\ handed_secondary = zero_offsets(r)
        /\ caller_thread = 0
        /\ last_op = outcome("build", 0, 0, TRUE, 0)

\* RenderBackend::new with a swap chain of n images, and the handler not yet dispatched
InitBackend(n) ==
    /\ raw = 0
    /\ old_swapchain = <<>>
    /\ new_swapchain = <<>>
    /\ swapchains = [h \in {0} |-> [count |-> n, destroyed |-> FALSE, previous |-> <<>>,
                                    previous_live |-> TRUE]]
    /\ surface = "current"
    /\ res = "none"
    /\ images = new_images(0, n)
    /\ syncs = new_syncs(n)
    /\ acquire_signal = [i \in 0..(n - 1) |-> "unsignaled"]
    /\ present_signal = [i \in 0..(n - 1) |-> "unsignaled"]
    /\ image_state = [i \in 0..(n - 1) |-> "free"]
    /\ sync_index = 0
    /\ presents = {}
    /\ submissions = <<>>
    /\ pc = "idle"
    /\ swapchain_image = <<>>
    /\ command_buffer = <<>>
    /\ finish_frame_calls = 0
    /\ frame_trace = <<>>

Init ==
    /\ absolute_frame_index = 0
    /\ graphics_timeline_semaphore = 0
    /\ InitRing
    /\ \E n \in ImageCounts : InitBackend(n)
    /\ InitConstructed

\* the handler makes call c and goes on to the next
Call(c) ==
    /\ pc = c
    /\ pc' = NextCall(c)
    /\ frame_trace' = Append(frame_trace, c)

\* the handler panics inside call c
Panic(c) ==
    /\ pc = c
    /\ pc' = "panicked"
    /\ frame_trace' = Append(frame_trace, c)

\* mutant: a window event is also dispatched to a handler that has acquired an image
window_event_reentrant == pc \in {"idle", "reset_pool"}

\* window_event(&mut self, ..): the event loop dispatches a window event to the handler
\* once the handler has returned from the last one
window_event == pc = "idle"

\* WindowEvent::RedrawRequested is dispatched
RedrawRequested ==
    /\ window_event
    /\ absolute_frame_index < MaxFrames
    /\ pc' = RedrawOrder[1]
    /\ frame_trace' = <<>>
    /\ swapchain_image' = <<>>
    /\ command_buffer' = <<>>
    /\ res' = "none"
    /\ UNCHANGED <<selection_vars, shutdown_vars, reader_vars, construction_vars, device_vars, resize_vars, platform_vars,
                   graphics_timeline_semaphore, ring_vars, swapchain_vars,
                   engine_vars, submissions, finish_frame_calls>>

\* render_backend.device.begin_frame()
BeginFrame ==
    /\ begin_frame_returns(absolute_frame_index)
    /\ Call("begin_frame")
    /\ UNCHANGED <<selection_vars, shutdown_vars, reader_vars, construction_vars, device_vars, resize_vars, platform_vars, res,
                   graphics_timeline_semaphore, ring_vars, swapchain_vars,
                   engine_vars, submissions, swapchain_image, command_buffer,
                   finish_frame_calls>>

\* mutant: the pair is taken modulo the number of pairs
sync_slot_by_syncs(cursor) == cursor % len(syncs)

\* mutant: every acquisition takes the first pair
sync_slot_first(cursor) == 0

\* Swapchain::acquire_next_image: self.sync_index % self.images.len()
sync_slot(cursor) == cursor % len(images)

\* swapchain.acquire_next_image().expect(..)
AcquireNextImage ==
    LET cursor == sync_index + 1
        slot == sync_slot(cursor)
    IN  IF slot \in DOMAIN syncs /\ surface \notin SurfaceErrors
        THEN \E i \in DOMAIN images :
                /\ image_state[i] = "free"
                /\ Call("acquire_next_image")
                /\ sync_index' = cursor
                /\ image_state' = [image_state EXCEPT ![i] = "acquired"]
                /\ acquire_signal' =
                       [acquire_signal EXCEPT ![syncs[slot].acquire_semaphore] = "pending"]
                /\ swapchain_image' =
                       <<[image |-> images[i], image_index |-> i, sync |-> syncs[slot]]>>
                /\ UNCHANGED <<selection_vars, shutdown_vars, reader_vars, construction_vars, device_vars, resize_vars, platform_vars, res,
                               graphics_timeline_semaphore, ring_vars, raw,
                               images, syncs, present_signal, presents, submissions,
                               command_buffer, finish_frame_calls>>
        ELSE /\ Panic("acquire_next_image")
             /\ sync_index' = cursor
             /\ UNCHANGED <<selection_vars, shutdown_vars, reader_vars, construction_vars, device_vars, resize_vars, platform_vars, res,
                            graphics_timeline_semaphore, ring_vars, raw, images,
                            syncs, engine_vars, submissions, swapchain_image, command_buffer,
                            finish_frame_calls>>

\* renderer.command_ring_buffer.reset_pool(0)
ResetPool ==
    /\ pc = "reset_pool"
    /\ reset_pool(caller_thread)
    /\ IF last_op'.ok THEN Call("reset_pool") ELSE Panic("reset_pool")
    /\ UNCHANGED <<selection_vars, shutdown_vars, reader_vars, construction_vars, device_vars, resize_vars, platform_vars, res,
                   graphics_timeline_semaphore, swapchain_vars, engine_vars,
                   submissions, swapchain_image, command_buffer, finish_frame_calls>>

\* renderer.command_ring_buffer.get_next_primary_buffer(0)
GetNextPrimaryBuffer ==
    /\ pc = "get_next_primary_buffer"
    /\ get_next_primary_buffer(caller_thread)
    /\ IF last_op'.ok
       THEN /\ Call("get_next_primary_buffer")
            /\ command_buffer' =
                   <<[pool |-> last_op'.pool_index, cmd_index |-> last_op'.cmd_index,
                      recorded |-> FALSE]>>
       ELSE /\ Panic("get_next_primary_buffer")
            /\ UNCHANGED command_buffer
    /\ UNCHANGED <<selection_vars, shutdown_vars, reader_vars, construction_vars, device_vars, resize_vars, platform_vars, res,
                   graphics_timeline_semaphore, swapchain_vars, engine_vars,
                   submissions, swapchain_image, finish_frame_calls>>

\* reset_command_buffer .. end_command_buffer: the commands are recorded
Record ==
    /\ Call("record")
    /\ command_buffer' =
           <<[command_buffer[1] EXCEPT !.recorded = TRUE]>>
    /\ UNCHANGED <<selection_vars, shutdown_vars, reader_vars, construction_vars, device_vars, resize_vars, platform_vars, res,
                   graphics_timeline_semaphore, ring_vars, swapchain_vars,
                   engine_vars, submissions, swapchain_image, finish_frame_calls>>

\* queue_submit2 on the graphics queue
Submit ==
    /\ Call("submit")
    /\ submissions' =
           Append(submissions,
                  [frame |-> absolute_frame_index,
                   command_buffer |-> command_buffer[1],
                   wait |-> wait_semaphores(swapchain_image[1], absolute_frame_index),
                   signal |-> signal_semaphores(swapchain_image[1], absolute_frame_index),
                   status |-> "pending"])
    /\ UNCHANGED <<selection_vars, shutdown_vars, reader_vars, construction_vars, device_vars, resize_vars, platform_vars, res,
                   graphics_timeline_semaphore, ring_vars, swapchain_vars,
                   engine_vars, swapchain_image, command_buffer, finish_frame_calls>>

\* mutant: only a successful present is let through
present_benign_ok_only(result) == result \in {"SUCCESS", "SUBOPTIMAL_KHR"}

\* Swapchain::present_image: the arms of the match that do not panic; ash returns
\* Ok for SUCCESS and SUBOPTIMAL_KHR and Err for the rest
present_benign(result) ==
    \/ result \in {"SUCCESS", "SUBOPTIMAL_KHR"}
    \/ result \in {"ERROR_OUT_OF_DATE_KHR", "SUBOPTIMAL_KHR"}

\* render_backend.swapchain.present_image(swapchain_image): the request is queued, its
\* semaphore wait included, whatever the result
PresentImage ==
    /\ pc = "present_image"
    /\ res' = queue_present(surface)
    /\ IF present_benign(res')
       THEN Call("present_image")
       ELSE Panic("present_image")
    /\ presents' = presents \cup
           {[image_index |-> swapchain_image[1].image_index,
             wait |-> swapchain_image[1].sync.present_semaphore]}
    /\ image_state' = [image_state EXCEPT ![swapchain_image[1].image_index] = "queued"]
    /\ swapchain_image' = <<>>
    /\ UNCHANGED <<selection_vars, shutdown_vars, reader_vars, construction_vars, device_vars, resize_vars, platform_vars,
                   graphics_timeline_semaphore, ring_vars, swapchain_vars,
                   acquire_signal, present_signal, submissions, command_buffer,
                   finish_frame_calls>>

\* render_backend.device.finish_frame(), then request_redraw()
FinishFrame ==
    /\ Call("finish_frame")
    /\ absolute_frame_index' = finish_frame(absolute_frame_index)
    /\ finish_frame_calls' = finish_frame_calls + 1
    /\ res' = "none"
    /\ UNCHANGED <<selection_vars, shutdown_vars, reader_vars, construction_vars, graphics_timeline_semaphore, ring_vars,
                   swapchain_vars, engine_vars, submissions, swapchain_image,
                   command_buffer, resize_vars, platform_vars>>

\* ------------------------------------------------- the graphics queue
\* a semaphore wait of a submitted batch is satisfied
wait_satisfied(w) ==
    IF w.kind = "timeline"
    THEN graphics_timeline_semaphore >= w.value
    ELSE acquire_signal[w.id] = "signaled"

\* the queue starts batch k: its waits are satisfied, the batches before it have started
GpuStart(k) ==
    /\ k \in 1..Len(submissions)
    /\ submissions[k].status = "pending"
    /\ \A j \in 1..(k - 1) : submissions[j].status # "pending"
    /\ \A w \in submissions[k].wait : wait_satisfied(w)
    /\ submissions' = [submissions EXCEPT ![k].status = "executing"]
    /\ acquire_signal' =
           [s \in DOMAIN acquire_signal |->
               IF \E w \in submissions[k].wait : w.kind = "acquire" /\ w.id = s
               THEN "unsignaled"
               ELSE acquire_signal[s]]
    /\ UNCHANGED <<selection_vars, shutdown_vars, reader_vars, construction_vars, device_vars, resize_vars, platform_vars, res,
                   graphics_timeline_semaphore, ring_vars, swapchain_vars,
                   present_signal, image_state, presents, pc, swapchain_image,
                   command_buffer, history_vars>>

\* batch k completes and its signal operations happen, in submission order
GpuRetire(k) ==
    /\ k \in 1..Len(submissions)
    /\ submissions[k].status = "executing"
    /\ \A j \in 1..(k - 1) : submissions[j].status = "retired"
    /\ submissions' = [submissions EXCEPT ![k].status = "retired"]
    /\ graphics_timeline_semaphore' =
           (LET t == {g \in submissions[k].signal : g.kind = "timeline"}
            IN  IF t = {} THEN graphics_timeline_semaphore ELSE (CHOOSE g \in t : TRUE).value)
    /\ present_signal' =
           [s \in DOMAIN present_signal |->
               IF \E g \in submissions[k].signal : g.kind = "present" /\ g.id = s
               THEN "signaled"
               ELSE present_signal[s]]
    /\ UNCHANGED <<selection_vars, shutdown_vars, reader_vars, construction_vars, device_vars, resize_vars, platform_vars, res,
                   ring_vars, swapchain_vars, acquire_signal, image_state,
                   presents, pc, swapchain_image, command_buffer, history_vars>>

\* --------------------------------------------- the presentation engine
\* the image handed out under acquire semaphore s becomes available
SignalAcquire(s) ==
    /\ s \in DOMAIN acquire_signal
    /\ acquire_signal[s] = "pending"
    /\ acquire_signal' = [acquire_signal EXCEPT ![s] = "signaled"]
    /\ UNCHANGED <<selection_vars, shutdown_vars, reader_vars, construction_vars, device_vars, resize_vars, platform_vars, res,
                   graphics_timeline_semaphore, ring_vars, swapchain_vars,
                   present_signal, image_state, presents, submissions, pc, swapchain_image,
                   command_buffer, history_vars>>

\* a queued present request finds its semaphore signaled and shows the image
PresentExec(p) ==
    /\ p \in presents
    /\ present_signal[p.wait] = "signaled"
    /\ present_signal' = [present_signal EXCEPT ![p.wait] = "unsignaled"]
    /\ presents' = presents \ {p}
    /\ image_state' = [image_state EXCEPT ![p.image_index] = "presented"]
    /\ UNCHANGED <<selection_vars, shutdown_vars, reader_vars, construction_vars, device_vars, resize_vars, platform_vars, res,
                   graphics_timeline_semaphore, ring_vars, swapchain_vars,
                   acquire_signal, submissions, pc, swapchain_image, command_buffer,
                   history_vars>>

\* the engine is done with a shown image
ReleaseImage(i) ==
    /\ i \in DOMAIN image_state
    /\ image_state[i] = "presented"
    /\ image_state' = [image_state EXCEPT ![i] = "free"]
    /\ UNCHANGED <<selection_vars, shutdown_vars, reader_vars, construction_vars, device_vars, resize_vars, platform_vars, res,
                   graphics_timeline_semaphore, ring_vars, swapchain_vars,
                   acquire_signal, present_signal, presents, submissions, pc,
                   swapchain_image, command_buffer, history_vars>>

\* ---------------------------------------------------------- Swapchain
\* device_wait_idle returns: nothing is left on the queue
DeviceIdle ==
    /\ \A k \in 1..Len(submissions) : submissions[k].status = "retired"
    /\ presents = {}

\* mutant: the old swap chain is destroyed before the new one is created
ResizeOrder_destroy_first ==
    <<"device_wait_idle", "destroy_swapchain", "create_swapchain", "get_swapchain_images",
      "assign">>

\* mutant: the old swap chain is destroyed before the images of the new one are fetched
ResizeOrder_destroy_before_images ==
    <<"device_wait_idle", "create_swapchain", "destroy_swapchain", "get_swapchain_images",
      "assign">>

\* Swapchain::resize: its calls in statement order
ResizeOrder ==
    <<"device_wait_idle", "create_swapchain", "get_swapchain_images", "destroy_swapchain",
      "assign">>

\* the call that follows call c in Swapchain::resize; the handler returns after the last
NextResizeCall(c) ==
    LET k == CHOOSE i \in 1..Len(ResizeOrder) : ResizeOrder[i] = c
    IN  IF k < Len(ResizeOrder) THEN ResizeOrder[k + 1] ELSE "idle"

\* resize makes call c and goes on to the next
ResizeCall(c) ==
    /\ pc = c
    /\ pc' = NextResizeCall(c)

\* call c fails and its ? returns the error from resize
ResizeErr(c) ==
    /\ pc = c
    /\ pc' = "resize_err"

\* WindowEvent::Resized is dispatched: swapchain.rebuild() / Swapchain::resize
Resized ==
    /\ window_event
    /\ raw < MaxResizes
    /\ pc' = ResizeOrder[1]
    /\ UNCHANGED <<selection_vars, shutdown_vars, reader_vars, construction_vars, device_vars, resize_vars, platform_vars, res,
                   graphics_timeline_semaphore, ring_vars, swapchain_vars, engine_vars,
                   submissions, swapchain_image, command_buffer, history_vars>>

\* self.device.raw.device_wait_idle()
DeviceWaitIdle ==
    /\ DeviceIdle
    /\ ResizeCall("device_wait_idle")
    /\ UNCHANGED <<selection_vars, shutdown_vars, reader_vars, construction_vars, device_vars, resize_vars, platform_vars, res,
                   graphics_timeline_semaphore, ring_vars, swapchain_vars, engine_vars,
                   submissions, swapchain_image, command_buffer, history_vars>>

\* desc.old_swapchain = Some(self.raw); create_raw_swapchain(..)?: the platform returns
\* a swap chain of some image count for the surface as it is now, or an error
CreateSwapchain ==
    /\ old_swapchain' = <<raw>>
    /\ \/ /\ surface # "lost"
          /\ ResizeCall("create_swapchain")
          /\ new_swapchain' = <<len(swapchains)>>
          /\ \E n \in ImageCounts :
                 swapchains' =
                     [h \in DOMAIN swapchains \cup {len(swapchains)} |->
                         IF h \in DOMAIN swapchains
                         THEN swapchains[h]
                         ELSE created(n, <<raw>>)]
          /\ surface' = "current"
       \/ /\ ResizeErr("create_swapchain")
          /\ UNCHANGED <<new_swapchain, swapchains, surface>>
    /\ UNCHANGED <<selection_vars, shutdown_vars, reader_vars, construction_vars, device_vars, res, graphics_timeline_semaphore, ring_vars,
                   swapchain_vars, engine_vars, submissions, swapchain_image,
                   command_buffer, history_vars>>

\* get_swapchain_images(new_swapchain)?
GetSwapchainImages ==
    /\ \/ ResizeCall("get_swapchain_images")
       \/ ResizeErr("get_swapchain_images")
    /\ UNCHANGED <<selection_vars, shutdown_vars, reader_vars, construction_vars, device_vars, resize_vars, platform_vars, res,
                   graphics_timeline_semaphore, ring_vars, swapchain_vars, engine_vars,
                   submissions, swapchain_image, command_buffer, history_vars>>

\* destroy_swapchain(self.raw, None)
DestroySwapchain ==
    /\ ResizeCall("destroy_swapchain")
    /\ swapchains' = [swapchains EXCEPT ![raw].destroyed = TRUE]
    /\ UNCHANGED <<selection_vars, shutdown_vars, reader_vars, construction_vars, device_vars, resize_vars, surface, res,
                   graphics_timeline_semaphore, ring_vars, swapchain_vars, engine_vars,
                   submissions, swapchain_image, command_buffer, history_vars>>

\* self.raw = new_swapchain; self.images = new_images; Ok(())
AssignSwapchain ==
    /\ ResizeCall("assign")
    /\ raw' = new_swapchain[1]
    /\ images' = new_images(new_swapchain[1], swapchains[new_swapchain[1]].count)
    /\ image_state' = [i \in 0..(swapchains[new_swapchain[1]].count - 1) |-> "free"]
    /\ new_swapchain' = <<>>
    /\ UNCHANGED <<selection_vars, shutdown_vars, reader_vars, construction_vars, device_vars, old_swapchain, platform_vars, res,
                   graphics_timeline_semaphore, ring_vars, syncs, sync_index,
                   acquire_signal, present_signal, presents, submissions,
                   swapchain_image, command_buffer, history_vars>>

\* .expect("Failed to rebuild swapchain") on the error resize returned
RebuildExpect ==
    /\ pc = "resize_err"
    /\ pc' = "panicked"
    /\ UNCHANGED <<selection_vars, shutdown_vars, reader_vars, construction_vars, device_vars, resize_vars, platform_vars, res,
                   graphics_timeline_semaphore, ring_vars, swapchain_vars, engine_vars,
                   submissions, swapchain_image, command_buffer, history_vars>>

\* the window system changes the surface under the swap chain
SurfaceChange ==
    /\ surface = "current"
    /\ absolute_frame_index < SurfaceFrames
    /\ surface' \in {"suboptimal", "out_of_date", "lost"}
    /\ UNCHANGED <<selection_vars, shutdown_vars, reader_vars, construction_vars, device_vars, resize_vars, swapchains, res,
                   graphics_timeline_semaphore, ring_vars, swapchain_vars, engine_vars,
                   submissions, pc, swapchain_image, command_buffer, history_vars>>

\* ------------------------------------------------------ specification
Driver ==
    \/ RedrawRequested
    \/ BeginFrame
    \/ AcquireNextImage
    \/ ResetPool
    \/ GetNextPrimaryBuffer
    \/ Record
    \/ Submit
    \/ PresentImage
    \/ FinishFrame

Gpu ==
    \/ \E k \in 1..Len(submissions) : GpuStart(k)
    \/ \E k \in 1..Len(submissions) : GpuRetire(k)

Engine ==
    \/ \E s \in DOMAIN acquire_signal : SignalAcquire(s)
    \/ \E p \in presents : PresentExec(p)
    \/ \E i \in DOMAIN image_state : ReleaseImage(i)

Resize ==
    \/ Resized
    \/ DeviceWaitIdle
    \/ CreateSwapchain
    \/ GetSwapchainImages
    \/ DestroySwapchain
    \/ AssignSwapchain
    \/ RebuildExpect

Next == Driver \/ Gpu \/ Engine \/ Resize

Spec == Init /\ [][Next]_vars

\* the handler, once dispatched, runs on: every call it makes is a step of the one
\* event-loop thread
Handler ==
    \/ BeginFrame
    \/ AcquireNextImage
    \/ ResetPool
    \/ GetNextPrimaryBuffer
    \/ Record
    \/ Submit
    \/ PresentImage
    \/ FinishFrame

\* the queue executes what can execute, the engine hands out, shows and releases images
Fairness ==
    /\ WF_vars(Handler)
    /\ \A k \in 1..MaxFrames : WF_vars(GpuStart(k)) /\ WF_vars(GpuRetire(k))
    /\ \A s \in 0..(MaxImages - 1) : WF_vars(SignalAcquire(s)) /\ WF_vars(ReleaseImage(s))
    /\ WF_vars(\E p \in presents : PresentExec(p))

FairSpec == Spec /\ Fairness

\* the same program on a surface that changes under it
SurfaceNext == Next \/ SurfaceChange

SurfaceSpec == Init /\ [][SurfaceNext]_vars

\* Swapchain::resize, once called, runs on as the frame handler does
ResizeHandler ==
    \/ DeviceWaitIdle
    \/ CreateSwapchain
    \/ GetSwapchainImages
    \/ DestroySwapchain
    \/ AssignSwapchain
    \/ RebuildExpect

\* request_redraw() at the end of every frame: another RedrawRequested is dispatched
FairSurfaceSpec ==
    SurfaceSpec /\ Fairness /\ WF_vars(ResizeHandler) /\ WF_vars(RedrawRequested)

\* ------------------------------------------- the ring on its own
\* what the ring operations leave alone
backend_vars == <<graphics_timeline_semaphore, swapchain_vars, engine_vars, submissions, pc,
                  swapchain_image, command_buffer, history_vars, resize_vars,
                  platform_vars, res>>

\* the counts a builder may be given: small ones and those around u8::MAX
BuilderCounts == (0..MaxCap) \cup {u8_MAX, u8_MAX + 1}

\* a CommandRingBufferBuilder with any counts, not yet built
RingInit ==
    /\ absolute_frame_index = 0
    /\ graphics_timeline_semaphore = 0
    /\ \E t \in 0..MaxThreads, p \in BuilderCounts, s \in BuilderCounts :
           ring = builder(t, p, s)
    /\ caller_thread \in 0..MaxThreads
    /\ used_primary_offset = <<>>
    /\ used_secondary_offset = <<>>
    /\ handed_primary = <<>>
    /\ handed_secondary = <<>>
    /\ last_op = outcome("builder", 0, 0, TRUE, 0)
    /\ InitBackend(MaxImages)
    /\ InitConstructed

\* CommandRingBufferBuilder::build
RingBuild ==
    /\ ring.status = "builder"
    /\ IF build_accepts(ring)
       THEN /\ ring' = build(ring)
            /\ used_primary_offset' = zero_offsets(ring')
            /\ used_secondary_offset' = zero_offsets(ring')
            /\ handed_primary' = zero_offsets(ring')
            /\ handed_secondary' = zero_offsets(ring')
            /\ last_op' = outcome("build", 0, 0, TRUE, 0)
       ELSE /\ ring' = [ring EXCEPT !.status = "panicked"]
            /\ last_op' = outcome("build", 0, 0, FALSE, 0)
            /\ UNCHANGED <<used_primary_offset, used_secondary_offset, handed_primary,
                           handed_secondary>>
    /\ UNCHANGED <<selection_vars, shutdown_vars, reader_vars, construction_vars, device_vars, caller_thread, backend_vars>>

\* the ring is built and no operation on it has panicked
RingUsable == ring.status = "built" /\ last_op.ok

\* a user of the ring passes a caller_thread the ring was built for, or the one past
ThreadInRange == caller_thread \in 0..ring.num_threads

\* reset_pool(caller_thread) on a ring under test
RingResetPool ==
    /\ RingUsable
    /\ ThreadInRange
    /\ reset_pool(caller_thread)
    /\ UNCHANGED <<selection_vars, shutdown_vars, reader_vars, construction_vars, device_vars, backend_vars>>

\* get_next_primary_buffer(caller_thread) on a ring under test
RingGetPrimary ==
    /\ RingUsable
    /\ ThreadInRange
    /\ \A q \in DOMAIN handed_primary :
           q = pool_from_indices(frame_index, caller_thread) => handed_primary[q] < MaxCalls
    /\ get_next_primary_buffer(caller_thread)
    /\ UNCHANGED <<selection_vars, shutdown_vars, reader_vars, construction_vars, device_vars, backend_vars>>

\* get_next_secondary_buffer(caller_thread) on a ring under test
RingGetSecondary ==
    /\ RingUsable
    /\ ThreadInRange
    /\ \A q \in DOMAIN handed_secondary :
           q = pool_from_indices(frame_index, caller_thread) => handed_secondary[q] < MaxCalls
    /\ get_next_secondary_buffer(caller_thread)
    /\ UNCHANGED <<selection_vars, shutdown_vars, reader_vars, construction_vars, device_vars, backend_vars>>

\* Device::finish_frame between the operations on a ring under test
RingFinishFrame ==
    /\ RingUsable
    /\ absolute_frame_index < RingFrames
    /\ absolute_frame_index' = finish_frame(absolute_frame_index)
    /\ UNCHANGED <<selection_vars, shutdown_vars, reader_vars, construction_vars, ring_vars, backend_vars>>

RingNext ==
    \/ RingBuild
    \/ RingResetPool
    \/ RingGetPrimary
    \/ RingGetSecondary
    \/ RingFinishFrame

RingSpec == RingInit /\ [][RingNext]_vars

\* --------------------------------------------- construction on its own
\* the sets of at most k extensions and features a physical device may lack
RECURSIVE Lacking(_)
Lacking(k) ==
    IF k = 0
    THEN {{}}
    ELSE LET fewer == Lacking(k - 1)
         IN  fewer \cup {m \cup {x} : m \in fewer, x \in DeviceExtensions \cup features2}

\* physical devices: any queue families with all else supported, or the families of
\* MainPhysicalDevice with some extensions and features lacking
PhysicalDevices ==
    {[MainPhysicalDevice EXCEPT !.queue_family_properties = q] :
        q \in UNION {[1..n -> SUBSET QueueFlags] : n \in 0..MaxFamilies}}
    \cup {[MainPhysicalDevice EXCEPT !.supported_extensions = DeviceExtensions \ m,
                                     !.features = features2 \ m] :
             m \in Lacking(MaxMissing)}

\* one component of current_extent with the min and max the platform reports for it
ExtentRanges ==
    {e \in [current : 0..MaxExtent, min : 0..MaxExtent, max : 0..MaxExtent] :
        e.min <= e.max}

\* surfaces: any extents, or any image counts, or any present modes, or any formats,
\* with all else as MainSupport has it
SurfaceSupports ==
    {[MainSupport EXCEPT
         !.capabilities.current_extent = [width |-> w.current, height |-> h.current],
         !.capabilities.min_image_extent = [width |-> w.min, height |-> h.min],
         !.capabilities.max_image_extent = [width |-> w.max, height |-> h.max]] :
        w \in ExtentRanges, h \in ExtentRanges}
    \cup {[MainSupport EXCEPT !.capabilities.min_image_count = lo,
                              !.capabilities.max_image_count = hi,
                              !.extra_images = x] :
             lo \in 1..MaxImages, hi \in 0..MaxImages, x \in 0..1}
    \cup {[MainSupport EXCEPT !.present_modes = m] : m \in SUBSET PresentModes}
    \cup {[MainSupport EXCEPT !.formats = f] : f \in SUBSET SurfaceFormats}

\* nothing constructed yet: no Device, no Swapchain, nothing submitted
NothingConstructed ==
    /\ absolute_frame_index = 0
    /\ graphics_timeline_semaphore = 0
    /\ caller_thread = 0
    /\ used_primary_offset = <<>>
    /\ used_secondary_offset = <<>>
    /\ handed_primary = <<>>
    /\ handed_secondary = <<>>
    /\ last_op = outcome("builder", 0, 0, TRUE, 0)
    /\ raw = -1
    /\ old_swapchain = <<>>
    /\ new_swapchain = <<>>
    /\ swapchains = <<>>
    /\ surface = "current"
    /\ res = "none"
    /\ images = <<>>
    /\ syncs = <<>>
    /\ acquire_signal = <<>>
    /\ present_signal = <<>>
    /\ image_state = <<>>
    /\ sync_index = 0
    /\ presents = {}
    /\ submissions = <<>>
    /\ pc = "idle"
    /\ swapchain_image = <<>>
    /\ command_buffer = <<>>
    /\ finish_frame_calls = 0
    /\ frame_trace = <<>>
    /\ device = device_of(no_device("none", "", {}), <<>>)
    /\ create_info = <<>>
    /\ construction = constructed("none", "ok", "", {})
    /\ drop_stack = <<>>
    /\ dropped = <<>>
    /\ observed = <<>>

\* App::resumed after the physical device is selected, on any physical device, or any
\* surface, or with any ring builder
ConstructInit ==
    /\ NothingConstructed
    /\ physical_devices = MainPhysicalDevices
    /\ selection = select(MainPhysicalDevices, FALSE)
    /\ \/ /\ physical_device \in PhysicalDevices
          /\ surface_support = MainSupport
          /\ desc = MainDesc
          /\ ring = builder(num_threads, primary_buffers_per_pool,
                            secondary_buffers_per_pool)
       \/ /\ physical_device = MainPhysicalDevice
          /\ surface_support \in SurfaceSupports
          /\ desc \in [format : {B8G8R8A8_SRGB}, vsync : BOOLEAN]
          /\ ring = builder(num_threads, primary_buffers_per_pool,
                            secondary_buffers_per_pool)
       \/ /\ physical_device = MainPhysicalDevice
          /\ surface_support = MainSupport
          /\ desc = MainDesc
          /\ \E t \in 0..MaxThreads, p \in 0..MaxCap, s \in 0..MaxCap :
                 ring = builder(t, p, s)

\* what the constructions leave alone: the frame loop, the GPU, the engine
running_vars == <<device_vars, graphics_timeline_semaphore, presents,
                  submissions, swapchain_image, command_buffer, history_vars, surface,
                  res, new_swapchain, selection_vars, shutdown_vars, reader_vars>>

\* DeviceBuilder::build, any one of its fallible calls failing or none
DeviceBuild ==
    /\ construction.of = "none"
    /\ \E fail \in 0..Len(device_calls) :
           LET d == DeviceBuilder_build(physical_device, fail)
           IN  /\ \E q \in into_iter(d.unique_queue_indices) : device' = device_of(d, q)
               /\ construction' = constructed("Device", d.status, d.error, d.live)
    /\ UNCHANGED <<running_vars, ring_vars, swapchain_vars, acquire_signal,
                   present_signal, image_state, pc, old_swapchain, swapchains,
                   physical_device, surface_support, desc, create_info>>

\* Swapchain::new on the surface as the platform reports it, its fail-th fallible call
\* failing (0, or one past its last call: none)
Swapchain_new(support, d, fail) ==
    LET r == create_raw_swapchain(support, d, IF fail <= Len(raw_swapchain_calls)
                                              THEN fail ELSE 0)
    IN  IF r.status = "err"
        THEN [status |-> "err", error |-> r.error, info |-> <<>>, images |-> 0,
              live |-> {}]
        ELSE LET n == platform_images(support, r.info[1])
                 calls == swapchain_calls(n)
             IN  IF fail \in 1..Len(calls)
                 THEN [status |-> "err", error |-> "vk::Result", info |-> r.info,
                       images |-> 0, live |-> left_live(calls, fail)]
                 ELSE [status |-> "ok", error |-> "", info |-> r.info, images |-> n,
                       live |-> left_live(calls, Len(calls) + 1)]

\* the platform's swap chains once it has created one more, of n images
with_created(n, previous) ==
    [h \in DOMAIN swapchains \cup {len(swapchains)} |->
        IF h \in DOMAIN swapchains THEN swapchains[h] ELSE created(n, previous)]

\* RenderBackend::new from the surface format on: the format is looked up among the
\* supported ones, then Swapchain::new runs
SwapchainNew ==
    /\ construction.of = "Device"
    /\ construction.status = "ok"
    /\ IF ~format_supported(surface_support.formats, desc.format)
       THEN /\ construction' = constructed("Swapchain", "err",
                                           "Surface format not available", {})
            /\ UNCHANGED <<swapchain_vars, acquire_signal, present_signal, image_state,
                           swapchains, create_info>>
       ELSE \E fail \in 0..Len(swapchain_calls(MaxImages + 2)) :
                LET s == Swapchain_new(surface_support, desc, fail)
                IN  /\ construction' = constructed("Swapchain", s.status, s.error, s.live)
                    /\ create_info' = s.info
                    /\ swapchains' = IF s.live = {} THEN swapchains
                                     ELSE with_created(platform_images(surface_support,
                                                                       s.info[1]), <<>>)
                    /\ IF s.status = "ok"
                       THEN /\ raw' = len(swapchains)
                            /\ images' = new_images(len(swapchains), s.images)
                            /\ syncs' = new_syncs(s.images)
                            /\ sync_index' = 0
                            /\ acquire_signal' = [i \in 0..(s.images - 1) |-> "unsignaled"]
                            /\ present_signal' = [i \in 0..(s.images - 1) |-> "unsignaled"]
                            /\ image_state' = [i \in 0..(s.images - 1) |-> "free"]
                       ELSE UNCHANGED <<swapchain_vars, acquire_signal, present_signal,
                                        image_state>>
    /\ UNCHANGED <<running_vars, ring_vars, pc, old_swapchain, physical_device, device,
                   surface_support, desc>>

\* CommandRingBufferBuilder::build, any one of its fallible calls failing or none
CommandRingBufferBuild ==
    /\ construction.of = "Swapchain"
    /\ construction.status = "ok"
    /\ IF ~build_accepts(ring)
       THEN /\ ring' = [ring EXCEPT !.status = "panicked"]
            /\ construction' = constructed("CommandRingBuffer", "panicked",
                                           "assertion failed", {})
            /\ last_op' = outcome("build", 0, 0, FALSE, 0)
            /\ UNCHANGED <<used_primary_offset, used_secondary_offset, handed_primary,
                           handed_secondary>>
       ELSE \E fail \in 0..Len(ring_calls(ring)) :
                IF fail = 0
                THEN /\ ring' = build(ring)
                     /\ construction' =
                            constructed("CommandRingBuffer", "ok", "",
                                        left_live(ring_calls(ring),
                                                  Len(ring_calls(ring)) + 1))
                     /\ used_primary_offset' = zero_offsets(ring')
                     /\ used_secondary_offset' = zero_offsets(ring')
                     /\ handed_primary' = zero_offsets(ring')
                     /\ handed_secondary' = zero_offsets(ring')
                     /\ last_op' = outcome("build", 0, 0, TRUE, 0)
                ELSE /\ ring' = [ring EXCEPT !.status = "err"]
                     /\ construction' =
                            constructed("CommandRingBuffer", "err", "vk::Result",
                                        left_live(ring_calls(ring), fail))
                     /\ last_op' = outcome("build", 0, 0, FALSE, 0)
                     /\ UNCHANGED <<used_primary_offset, used_secondary_offset,
                                    handed_primary, handed_secondary>>
    /\ UNCHANGED <<running_vars, caller_thread, swapchain_vars, acquire_signal,
                   present_signal, image_state, pc, old_swapchain, swapchains,
                   physical_device, device, surface_support, desc, create_info>>

ConstructNext ==
    \/ DeviceBuild
    \/ SwapchainNew
    \/ CommandRingBufferBuild

ConstructSpec == ConstructInit /\ [][ConstructNext]_vars

\* ------------------------------------------- resizing on its own
\* the program as App::resumed constructed it on any surface that let it
ResizeInit ==
    /\ absolute_frame_index = 0
    /\ graphics_timeline_semaphore = 0
    /\ InitRing
    /\ physical_device = MainPhysicalDevice
    /\ device = device_of(DeviceBuilder_build(MainPhysicalDevice, 0), <<0>>)
    /\ construction = constructed("CommandRingBuffer", "ok", "", {})
    /\ InitRunning
    /\ surface_support \in SurfaceSupports
    /\ desc \in [format : {B8G8R8A8_SRGB}, vsync : BOOLEAN]
    /\ LET s == Swapchain_new(surface_support, desc, 0)
       IN  /\ format_supported(surface_support.formats, desc.format)
           /\ s.status = "ok"
           /\ create_info = s.info
           /\ InitBackend(s.images)

\* the window system gives the surface another size
SurfaceResized ==
    /\ pc = "idle"
    /\ \E w \in 0..MaxExtent, h \in 0..MaxExtent :
           /\ surface_support.capabilities.current_extent # [width |-> w, height |-> h]
           /\ surface_support' =
                  [surface_support EXCEPT
                      !.capabilities.current_extent = [width |-> w, height |-> h]]
    /\ UNCHANGED <<running_vars, ring_vars, swapchain_vars, acquire_signal,
                   present_signal, image_state, pc, old_swapchain, swapchains,
                   physical_device, device, desc, create_info, construction>>

\* the fallible native calls of Swapchain::resize, in order
resize_calls ==
    <<native("device_wait_idle", {})>>
    \o raw_swapchain_calls
    \o <<native("get_swapchain_images", {})>>

\* &self.desc: the desc resize hands to create_raw_swapchain
resize_desc_other_format(d) == [d EXCEPT !.format = "R8G8B8A8_UNORM"]

resize_desc(d) == d

\* Swapchain::resize in one step, any one of its fallible calls failing or none
SwapchainResize ==
    /\ pc = "idle"
    /\ raw < MaxResizes
    /\ \E fail \in 0..Len(resize_calls) :
           LET r == create_raw_swapchain(surface_support, resize_desc(desc),
                                         IF fail \in 2..4 THEN fail - 1 ELSE 0)
           IN  /\ old_swapchain' = IF fail = 1 THEN old_swapchain ELSE <<raw>>
               /\ IF fail = 1 \/ r.status = "err"
                  THEN /\ pc' = "resize_err"
                       /\ UNCHANGED <<swapchain_vars, image_state, swapchains, create_info>>
                  ELSE IF fail = Len(resize_calls)
                  THEN /\ pc' = "resize_err"
                       /\ swapchains' = with_created(
                              platform_images(surface_support, r.info[1]), <<raw>>)
                       /\ UNCHANGED <<swapchain_vars, image_state, create_info>>
                  ELSE LET n == platform_images(surface_support, r.info[1])
                           made_one == with_created(n, <<raw>>)
                       IN  /\ swapchains' = [made_one EXCEPT ![raw].destroyed = TRUE]
                           /\ raw' = len(swapchains)
                           /\ images' = new_images(len(swapchains), n)
                           /\ image_state' = [i \in 0..(n - 1) |-> "free"]
                           /\ create_info' = r.info
                           /\ UNCHANGED <<syncs, sync_index, pc>>
    /\ UNCHANGED <<running_vars, ring_vars, acquire_signal, present_signal,
                   physical_device, device, surface_support, desc, construction>>

ResizeNext ==
    \/ SurfaceResized
    \/ SwapchainResize

ResizeSpec == ResizeInit /\ [][ResizeNext]_vars

\* ------------------------------------------------------------- claims
\* the batches submitted to the graphics queue that have not retired
unretired == {k \in 1..Len(submissions) : submissions[k].status # "retired"}

\* the calls made so far in the current frame
made == {frame_trace[i] : i \in 1..Len(frame_trace)}

\* the RedrawRequested handler is inside a frame
InFrame == pc \in {RedrawOrder[i] : i \in 1..Len(RedrawOrder)}

IsPrefix(a, b) == Len(a) <= Len(b) /\ \A i \in 1..Len(a) : a[i] = b[i]

\* C1: reset_pool for the pool of frame slot f mod FRAMES_IN_FLIGHT is never executed in
\* frame f while a submission recorded from that pool, in particular the one of the slot's
\* previous occupant f - FRAMES_IN_FLIGHT, has not retired on the GPU.
C1_ResetNeverWhilePoolInUse ==
    [][ResetPool =>
        \A k \in 1..Len(submissions) :
            (\/ submissions[k].command_buffer.pool = pool_from_indices(frame_index, 0)
             \/ submissions[k].frame = absolute_frame_index - FRAMES_IN_FLIGHT)
            => submissions[k].status = "retired"]_vars

\* C1 witness: the pool was just reset in a frame whose slot had a previous occupant,
\* while the frame in between is still on the GPU
C1_Witness ==
    /\ pc = NextCall("reset_pool")
    /\ absolute_frame_index >= FRAMES_IN_FLIGHT
    /\ \E k \in 1..Len(submissions) :
          submissions[k].frame = absolute_frame_index - FRAMES_IN_FLIGHT
    /\ unretired # {}

\* C2: at most FRAMES_IN_FLIGHT submitted frames have not yet retired on the GPU.
C2_OutstandingBounded == Cardinality(unretired) <= FRAMES_IN_FLIGHT

\* C2 witness: the bound is met after the pacing wait has come into play
C2_Witness ==
    /\ Cardinality(unretired) = FRAMES_IN_FLIGHT
    /\ absolute_frame_index > FRAMES_IN_FLIGHT

\* C3: begin_frame(f) returns without waiting when f < FRAMES_IN_FLIGHT, and for
\* f >= FRAMES_IN_FLIGHT returns exactly when the pacing semaphore has reached
\* f - FRAMES_IN_FLIGHT + 1.
C3_BeginFrameGate ==
    pc = "begin_frame" =>
        /\ absolute_frame_index < FRAMES_IN_FLIGHT => ENABLED BeginFrame
        /\ absolute_frame_index >= FRAMES_IN_FLIGHT =>
              (ENABLED BeginFrame <=>
                  graphics_timeline_semaphore >= absolute_frame_index - FRAMES_IN_FLIGHT + 1)

\* C3 witness: begin_frame(2) is blocked, no value having been signaled yet
C3_Witness ==
    /\ pc = "begin_frame"
    /\ absolute_frame_index = FRAMES_IN_FLIGHT
    /\ graphics_timeline_semaphore = 0
    /\ ~ENABLED BeginFrame

\* C4: whenever the pacing semaphore has reached the value begin_frame waits for in
\* frame f, f - FRAMES_IN_FLIGHT + 1, the submission of frame f - FRAMES_IN_FLIGHT has
\* completed on the GPU.
C4_WaitValueMeansOccupantRetired ==
    \A f \in FRAMES_IN_FLIGHT..(MaxFrames + FRAMES_IN_FLIGHT) :
        graphics_timeline_semaphore >= f - FRAMES_IN_FLIGHT + 1 =>
            \E k \in 1..Len(submissions) :
                /\ submissions[k].frame = f - FRAMES_IN_FLIGHT
                /\ submissions[k].status = "retired"

\* C4 witness: begin_frame's wait in frame f is satisfied while frame f - 1 is still
\* on the GPU
C4_Witness ==
    /\ pc = "begin_frame"
    /\ absolute_frame_index >= FRAMES_IN_FLIGHT
    /\ graphics_timeline_semaphore = absolute_frame_index - FRAMES_IN_FLIGHT + 1
    /\ unretired # {}

\* C5: the pacing semaphore's value never decreases, and frames retire in submission
\* order (the retired submissions are always a prefix of the submitted ones), whatever
\* the presentation engine does.
C5_TimelineMonotonic ==
    [][/\ graphics_timeline_semaphore' >= graphics_timeline_semaphore
       /\ \A k \in 1..Len(submissions') :
             submissions'[k].status = "retired" =>
                 /\ \A j \in 1..(k - 1) : submissions'[j].status = "retired"
                 /\ graphics_timeline_semaphore' >= submissions'[k].frame + 1]_vars

\* C5 witness: two frames have retired while none of their images has been presented
C5_Witness ==
    /\ graphics_timeline_semaphore >= 2
    /\ Cardinality(presents) >= 2

\* C6: the submission of frame f waits on the acquired image's acquire semaphore, waits
\* on the pacing semaphore at f - FRAMES_IN_FLIGHT + 1 iff f >= FRAMES_IN_FLIGHT, and
\* signals the image's present semaphore and the pacing semaphore at f + 1.
C6_SubmitSemaphores ==
    /\ \A k \in 1..Len(submissions) :
          LET b == submissions[k]
          IN  /\ Cardinality({w \in b.wait : w.kind = "acquire"}) = 1
              /\ {w \in b.wait : w.kind # "acquire"} =
                     (IF b.frame >= FRAMES_IN_FLIGHT
                      THEN {[kind |-> "timeline", id |-> 0,
                             value |-> b.frame - FRAMES_IN_FLIGHT + 1]}
                      ELSE {})
              /\ Cardinality({g \in b.signal : g.kind = "present"}) = 1
              /\ {g \in b.signal : g.kind # "present"} =
                     {[kind |-> "timeline", id |-> 0, value |-> b.frame + 1]}
    /\ (pc = NextCall("submit") /\ swapchain_image # <<>>) =>
          LET b == submissions[Len(submissions)]
          IN  /\ b.frame = absolute_frame_index
              /\ [kind |-> "acquire", id |-> swapchain_image[1].sync.acquire_semaphore,
                  value |-> 0] \in b.wait
              /\ [kind |-> "present", id |-> swapchain_image[1].sync.present_semaphore,
                  value |-> 0] \in b.signal

\* C6 witness: a frame past the first FRAMES_IN_FLIGHT has just been submitted
C6_Witness ==
    /\ pc = NextCall("submit")
    /\ swapchain_image # <<>>
    /\ absolute_frame_index >= FRAMES_IN_FLIGHT
    /\ Len(submissions) = absolute_frame_index + 1

\* C7: absolute_frame_index starts at 0 and always equals the number of finish_frame
\* calls made so far: each call adds one, and no other operation changes it.
C7_FrameIndexCountsFinishFrame == absolute_frame_index = finish_frame_calls

\* C7 witness: several finish_frame calls, with a resize and pool resets in between
C7_Witness ==
    /\ finish_frame_calls >= 3
    /\ raw >= 1
    /\ "reset_pool" \in made

\* C8: finish_frame is called once per displayed frame and only after that frame's
\* submission: the calls never outnumber the submissions, and once a frame is through
\* the calls, the submissions and the frame counter agree.
C8_FinishFrameOncePerFrame ==
    /\ finish_frame_calls <= Len(submissions)
    /\ Len(submissions) <= finish_frame_calls + 1
    /\ Cardinality({i \in 1..Len(frame_trace) : frame_trace[i] = "finish_frame"}) <= 1
    /\ ("finish_frame" \in made) => ("submit" \in made)
    /\ pc = "idle" =>
          /\ finish_frame_calls = Len(submissions)
          /\ absolute_frame_index = Len(submissions)

\* C8 witness: five frames driven through the protocol, the GPU having completed all
C8_Witness ==
    /\ pc = "idle"
    /\ finish_frame_calls = 5
    /\ unretired = {}

\* the order of the calls as the handler makes them
CodeOrder ==
    <<"begin_frame", "acquire_next_image", "reset_pool", "get_next_primary_buffer",
      "record", "submit", "present_image", "finish_frame">>

\* the order of the calls as the protocol description lists them
ListedOrder ==
    <<"begin_frame", "reset_pool", "get_next_primary_buffer", "acquire_next_image",
      "record", "submit", "present_image", "finish_frame">>

C10_StartedFrameFinishes == InFrame ~> (pc = "idle")

\* the begin_frame wait alone
C10_BeginFrameReturns == (pc = "begin_frame") ~> (pc # "begin_frame")

\* what does hold: a started frame finishes unless the handler panics in it
C10_FinishesUnlessPanic == InFrame ~> (pc = "idle" \/ pc = "panicked")

\* a ring operation on a ring under test
RingOp == RingResetPool \/ RingGetPrimary \/ RingGetSecondary

\* C11: a pool of a ring built with primary capacity c hands out c primary buffers after
\* its reset (or its creation) and no more: the call that fails, by assertion, is the one
\* made when c have been handed out, and reset_pool gives the pool its whole capacity back.
\* The same holds for the secondary buffers with the secondary capacity.
C11_CapacityPerReset ==
    ring.status = "built" =>
        \A q \in DOMAIN handed_primary :
            /\ handed_primary[q] <= ring.primary_buffers_per_pool
            /\ handed_secondary[q] <= ring.secondary_buffers_per_pool
            /\ (last_op.pool_index = q /\ ~last_op.ok) =>
                   /\ last_op.op = "get_next_primary_buffer" =>
                          handed_primary[q] = ring.primary_buffers_per_pool
                   /\ last_op.op = "get_next_secondary_buffer" =>
                          handed_secondary[q] = ring.secondary_buffers_per_pool
                   /\ last_op.op # "reset_pool"
            /\ (last_op.pool_index = q /\ last_op.op = "reset_pool") =>
                   handed_primary[q] = 0 /\ handed_secondary[q] = 0

C11_Witness ==
    /\ ring.status = "built"
    /\ ring.primary_buffers_per_pool = MaxCap
    /\ last_op.op = "get_next_primary_buffer"
    /\ ~last_op.ok
    /\ last_op.pool_index \in DOMAIN handed_primary
    /\ handed_primary[last_op.pool_index] = MaxCap
    /\ absolute_frame_index = 1

\* C12: a ring operation of thread t addresses the pool t * FRAMES_IN_FLIGHT + slot, slot
\* being absolute_frame_index mod FRAMES_IN_FLIGHT; for t below the thread count that
\* index is one of the ring's pools; and the same thread addresses another pool in the
\* frame that follows.
C12_PoolAddressing ==
    [][LET t == caller_thread IN
          RingOp =>
              /\ last_op'.thread_index = t
              /\ last_op'.pool_index =
                     t * FRAMES_IN_FLIGHT + (absolute_frame_index % FRAMES_IN_FLIGHT)
              /\ t < ring.num_threads => last_op'.pool_index \in 0..(ring.command_pools - 1)
              /\ (t < ring.num_threads) <=> (last_op'.pool_index \in DOMAIN used_primary_offset)
              /\ last_op'.pool_index #
                     t * FRAMES_IN_FLIGHT + ((absolute_frame_index + 1) % FRAMES_IN_FLIGHT)
      ]_vars

C12_Witness ==
    /\ last_op.op = "get_next_primary_buffer"
    /\ last_op.ok
    /\ caller_thread = 1
    /\ last_op.pool_index = FRAMES_IN_FLIGHT + 1
    /\ absolute_frame_index = 1

\* C13: build fails when the requested primary or secondary count per pool is above 255
\* and accepts 255; when it succeeds there are num_threads * FRAMES_IN_FLIGHT pools, each
\* with the requested number of primary and of secondary buffers and both cursors at 0.
C13_BuildLimits ==
    [][RingBuild =>
          /\ (ring.primary_buffers_per_pool > 255 \/ ring.secondary_buffers_per_pool > 255)
                 => ring'.status = "panicked"
          /\ (/\ ring.num_threads >= 1
              /\ ring.primary_buffers_per_pool \in 1..255
              /\ ring.secondary_buffers_per_pool \in 0..255) => ring'.status = "built"
          /\ ring'.status = "built" =>
                 /\ ring'.command_pools = ring.num_threads * FRAMES_IN_FLIGHT
                 /\ ring'.primary_buffers_per_pool = ring.primary_buffers_per_pool
                 /\ ring'.secondary_buffers_per_pool = ring.secondary_buffers_per_pool
                 /\ ring'.primary_buffers =
                        ring'.command_pools * ring.primary_buffers_per_pool
                 /\ ring'.secondary_buffers =
                        ring'.command_pools * ring.secondary_buffers_per_pool
                 /\ DOMAIN used_primary_offset' = 0..(ring'.command_pools - 1)
                 /\ DOMAIN used_secondary_offset' = 0..(ring'.command_pools - 1)
                 /\ \A q \in 0..(ring'.command_pools - 1) :
                        used_primary_offset'[q] = 0 /\ used_secondary_offset'[q] = 0
      ]_vars

C13_Witness ==
    /\ ring.status = "built"
    /\ ring.primary_buffers_per_pool = 255
    /\ ring.secondary_buffers_per_pool = 255
    /\ last_op.op = "build"

\* acquire_next_image returns a SwapchainImage in this step
AcquireReturns == AcquireNextImage /\ pc' # "panicked"

\* C14: every acquire_next_image advances the sync-pair cursor by one; the SwapchainImage
\* it returns carries the pair at (cursor mod number of images), whatever image index the
\* platform returned, together with that index and the image at that index.
C14_CursorSelectsPair ==
    [][AcquireNextImage =>
          /\ sync_index' = sync_index + 1
          /\ AcquireReturns =>
                 /\ swapchain_image' # <<>>
                 /\ swapchain_image'[1].image_index \in DOMAIN images
                 /\ image_state[swapchain_image'[1].image_index] = "free"
                 /\ swapchain_image'[1].image = images[swapchain_image'[1].image_index]
                 /\ (sync_index + 1) % len(images) \in DOMAIN syncs
                 /\ swapchain_image'[1].sync = syncs[(sync_index + 1) % len(images)]
      ]_vars

C14_Witness ==
    /\ pc = "reset_pool"
    /\ swapchain_image # <<>>
    /\ swapchain_image[1].sync.acquire_semaphore # swapchain_image[1].image_index
    /\ swapchain_image[1].sync = syncs[sync_index % len(images)]
    /\ sync_index >= 2

\* C15: whatever images the platform returns, the acquire semaphore acquire_next_image
\* hands to the platform is not in use by an earlier acquisition: it is unsignaled, with
\* no signal pending, and no submission that waits on it is still unretired.
C15_AcquireSemaphoreFree ==
    [][(AcquireNextImage /\ (sync_index + 1) % len(images) \in DOMAIN syncs) =>
          LET sem == syncs[(sync_index + 1) % len(images)].acquire_semaphore
          IN  /\ acquire_signal[sem] = "unsignaled"
              /\ \A k \in unretired :
                     \A w \in submissions[k].wait : ~(w.kind = "acquire" /\ w.id = sem)
      ]_vars

C15_Witness ==
    /\ pc = "reset_pool"
    /\ swapchain_image # <<>>
    /\ sync_index > len(syncs)
    /\ acquire_signal[swapchain_image[1].sync.acquire_semaphore] = "pending"
    /\ unretired # {}

\* the calls of Swapchain::resize that follow device_wait_idle
AfterWaitIdle == {"create_swapchain", "get_swapchain_images", "destroy_swapchain", "assign"}

\* C16: resize waits for the device to be idle, then creates the new swap chain with the
\* live current handle as its previous one, and destroys the old handle only when the new
\* swap chain exists; the handle the Swapchain holds is never a destroyed one, outside
\* the two statements that destroy the old handle and store the new one.
C16_ResizeOrder ==
    /\ pc # "assign" => ~swapchains[raw].destroyed
    /\ pc \in AfterWaitIdle => DeviceIdle
    /\ \A h \in DOMAIN swapchains :
           /\ swapchains[h].previous_live
           /\ swapchains[h].destroyed =>
                  \E g \in DOMAIN swapchains : swapchains[g].previous = <<h>>
    /\ new_swapchain # <<>> =>
           /\ new_swapchain[1] \in DOMAIN swapchains
           /\ swapchains[new_swapchain[1]].previous = <<raw>>
           /\ ~swapchains[new_swapchain[1]].destroyed

C16_Witness ==
    /\ pc = "idle"
    /\ raw = 1
    /\ swapchains[0].destroyed
    /\ ~swapchains[1].destroyed
    /\ swapchains[1].previous = <<0>>

\* C17: when the creation of the new swap chain (or the fetch of its images) fails, resize
\* returns the error with the Swapchain as it was: raw, images, syncs and the cursor are
\* unchanged and the handle in raw is not destroyed, so resize can be called again.
C17_FailedResizeKeepsSwapchain ==
    [][(pc # "resize_err" /\ pc' = "resize_err") =>
          /\ UNCHANGED swapchain_vars
          /\ ~swapchains'[raw'].destroyed
          /\ len(images') = swapchains'[raw'].count
          /\ old_swapchain' = <<raw'>>
      ]_vars

C17_Witness ==
    /\ pc = "resize_err"
    /\ old_swapchain = <<raw>>
    /\ ~swapchains[raw].destroyed
    /\ new_swapchain = <<>>

\* C18: present_image returns normally, the Swapchain unchanged, when the present reports
\* OUT_OF_DATE or SUBOPTIMAL (or succeeds); on any other result it panics.
C18_PresentResults ==
    [][PresentImage =>
          /\ res' \in {"SUCCESS", "SUBOPTIMAL_KHR", "ERROR_OUT_OF_DATE_KHR"} =>
                 /\ pc' = NextCall("present_image")
                 /\ UNCHANGED <<swapchain_vars, resize_vars>>
          /\ res' \notin {"SUCCESS", "SUBOPTIMAL_KHR", "ERROR_OUT_OF_DATE_KHR"} =>
                 pc' = "panicked"
      ]_vars

C18_Witness ==
    /\ pc = NextCall("present_image")
    /\ res = "ERROR_OUT_OF_DATE_KHR"
    /\ surface = "out_of_date"

\* C19: once a present or an acquire has reported the swap chain out of date, the swap
\* chain is eventually recreated for the surface and is ready again (unless the platform
\* refuses the recreation).
C19_OutOfDateIsRecreated ==
    \A r \in 0..MaxResizes :
        (res = "ERROR_OUT_OF_DATE_KHR" /\ raw = r)
            ~> ((pc = "idle" /\ raw # r) \/ pc = "resize_err")

\* C20: the Swapchain holds one (acquire, present) semaphore pair per image, after
\* construction and after every resize, whatever number of images the platform returns.
C20_OnePairPerImage == len(syncs) = len(images)

\* what does hold: one pair per image of the swap chain the Swapchain was constructed with
C20_PairsOfFirstSwapchain == len(syncs) = swapchains[0].count

\* the steps of Swapchain::resize, from its dispatch on
ResizeStep ==
    \/ Resized
    \/ DeviceWaitIdle
    \/ CreateSwapchain
    \/ GetSwapchainImages
    \/ DestroySwapchain
    \/ AssignSwapchain

\* C21: no step of a swap chain recreation runs in a frame that has acquired its image
\* and not yet presented it, and the image a frame records into, submits and presents is
\* an image of the swap chain that is current at that step, never one issued before a
\* recreation.
C21_ResizeOnlyBetweenFrames ==
    [][/\ ResizeStep => ~("acquire_next_image" \in made /\ "present_image" \notin made)
       /\ (Record \/ Submit \/ PresentImage) =>
              /\ swapchain_image[1].image[1] = raw
              /\ swapchain_image[1].image_index \in DOMAIN images
              /\ images[swapchain_image[1].image_index] = swapchain_image[1].image]_vars

C21_Witness ==
    /\ pc = "present_image"
    /\ raw = 1
    /\ "submit" \in made
    /\ swapchain_image # <<>>
    /\ swapchain_image[1].image[1] = 1

\* the value of lo..hi nearest to v
nearest(v, lo, hi) ==
    CHOOSE w \in lo..hi :
        \A u \in lo..hi :
            (IF v < w THEN w - v ELSE v - w) <= (IF v < u THEN u - v ELSE v - u)

\* the extent the surface asks for, brought into what the platform supports
supported_extent ==
    LET c == surface_support.capabilities
    IN  [width |-> nearest(c.current_extent.width, c.min_image_extent.width,
                           c.max_image_extent.width),
         height |-> nearest(c.current_extent.height, c.min_image_extent.height,
                            c.max_image_extent.height)]

\* RenderBackend::new reaches Swapchain::new
NewSwapchain == SwapchainNew /\ format_supported(surface_support.formats, desc.format)

\* C22: the creation of a swap chain asks for the current extent clamped to the
\* platform's minimum and maximum, and whenever the clamped extent has zero area (its
\* width or its height is 0) it fails with an error and creates no swap chain.
C22_ZeroAreaRejected ==
    [][NewSwapchain =>
          IF supported_extent.width = 0 \/ supported_extent.height = 0
          THEN /\ construction'.status = "err"
               /\ swapchains' = swapchains
               /\ UNCHANGED swapchain_vars
          ELSE construction'.status = "ok" =>
                   create_info'[1].image_extent = supported_extent]_vars

\* what the code does: only an extent whose width and height are both 0 is refused
C22_ZeroExtentRejected ==
    [][NewSwapchain =>
          IF supported_extent.width = 0 /\ supported_extent.height = 0
          THEN /\ construction'.status = "err"
               /\ construction'.live = {}
               /\ swapchains' = swapchains
               /\ UNCHANGED swapchain_vars
          ELSE construction'.status = "ok" =>
                   create_info'[1].image_extent = supported_extent]_vars

C22_Witness ==
    /\ construction.of = "Swapchain"
    /\ construction.error = "Swapchain extent cannot be zero"
    /\ surface_support.capabilities.min_image_extent.width = 0
    /\ surface_support.capabilities.max_image_extent.width > 0
    /\ swapchains = <<>>

\* C23: when the surface does not support the requested format, the creation reports
\* that the format is not available and creates nothing: no swap chain on the platform,
\* no image handles, no semaphores.
C23_UnsupportedFormat ==
    [][(SwapchainNew /\ desc.format \notin surface_support.formats) =>
          /\ construction'.status = "err"
          /\ construction'.error = "Surface format not available"
          /\ construction'.live = {}
          /\ swapchains' = swapchains
          /\ len(images') = 0
          /\ len(syncs') = 0
          /\ create_info' = <<>>]_vars

C23_Witness ==
    /\ construction.of = "Swapchain"
    /\ construction.error = "Surface format not available"
    /\ desc.format \notin surface_support.formats
    /\ surface_support.formats # {}
    /\ swapchains = <<>>
    /\ len(images) = 0

\* C24: for every set of present modes the surface supports, a swap chain created with
\* vsync on presents in MAILBOX if that is supported and in FIFO if not, and one created
\* with vsync off presents in FIFO_RELAXED if that is supported, else in IMMEDIATE if that
\* is supported, else in FIFO.
C24_PresentMode ==
    create_info # <<>> =>
        LET modes == surface_support.present_modes
        IN  create_info[1].present_mode =
                IF desc.vsync
                THEN IF "MAILBOX" \in modes THEN "MAILBOX" ELSE "FIFO"
                ELSE IF "FIFO_RELAXED" \in modes THEN "FIFO_RELAXED"
                ELSE IF "IMMEDIATE" \in modes THEN "IMMEDIATE"
                ELSE "FIFO"

C24_Witness ==
    /\ construction.of = "Swapchain"
    /\ construction.status = "ok"
    /\ ~desc.vsync
    /\ surface_support.present_modes = {"MAILBOX", "FIFO", "IMMEDIATE"}
    /\ create_info[1].present_mode = "IMMEDIATE"

\* C25: the image count asked for is the platform's minimum plus one, brought down to the
\* platform's maximum when that maximum is above 0 and below the minimum plus one; a
\* maximum of 0 sets no limit.
C25_ImageCount ==
    create_info # <<>> =>
        LET c == surface_support.capabilities
        IN  /\ c.max_image_count = 0 =>
                   create_info[1].min_image_count = c.min_image_count + 1
            /\ (c.max_image_count > 0 /\ c.min_image_count + 1 <= c.max_image_count) =>
                   create_info[1].min_image_count = c.min_image_count + 1
            /\ (c.max_image_count > 0 /\ c.min_image_count + 1 > c.max_image_count) =>
                   create_info[1].min_image_count = c.max_image_count

C25_Witness ==
    /\ construction.of = "Swapchain"
    /\ construction.status = "ok"
    /\ surface_support.capabilities.min_image_count = 2
    /\ surface_support.capabilities.max_image_count = 2
    /\ create_info[1].min_image_count = 2
    /\ len(images) = 2 + surface_support.extra_images

C27_NoLeakOnError ==
    construction.status = "err" => construction.live = {}

\* what the code does: a construction that fails before its first creating call leaves
\* nothing, and a successful one leaves every object it created
C27_FirstStepsLeaveNothing ==
    /\ (construction.status = "err" /\ construction.error # "vk::Result") =>
           construction.live = {}
    /\ (construction.of = "Device" /\ construction.status = "ok") =>
           construction.live = left_live(device_calls, Len(device_calls) + 1)

C27_Witness ==
    /\ construction.of = "Device"
    /\ construction.status = "err"
    /\ construction.error = "Failed to create logical device"
    /\ construction.live = {}

\* the features the program needs: timeline semaphores, dynamic and non-uniform indexing
\* of descriptor arrays, partially bound, update-after-bind and variable-count bindings
NeededFeatures ==
    {"timeline_semaphore",
     "shader_uniform_texel_buffer_array_dynamic_indexing",
     "shader_storage_texel_buffer_array_dynamic_indexing",
     "shader_sampled_image_array_non_uniform_indexing",
     "shader_storage_image_array_non_uniform_indexing",
     "shader_uniform_texel_buffer_array_non_uniform_indexing",
     "shader_storage_texel_buffer_array_non_uniform_indexing",
     "descriptor_binding_partially_bound",
     "descriptor_binding_sampled_image_update_after_bind",
     "descriptor_binding_variable_descriptor_count"}

\* the extensions the logical device is created with
NeededExtensions ==
    {"VK_KHR_swapchain", "VK_KHR_timeline_semaphore", "VK_EXT_descriptor_indexing",
     "VK_KHR_synchronization2"}

\* C28: on a physical device that lacks one of the needed features or one of the needed
\* extensions, the construction of the Device fails: it ends in an error or a panic and
\* returns no Device, whichever native calls succeed.
C28_UnsupportedDeviceFails ==
    (/\ construction.of # "none"
     /\ \/ ~(NeededFeatures \subseteq physical_device.features)
        \/ ~(NeededExtensions \subseteq physical_device.supported_extensions)) =>
        /\ device.status \in {"err", "panicked"}
        /\ device.graphics_queue = <<>>
        /\ construction.of = "Device"

C28_Witness ==
    /\ device.status = "panicked"
    /\ "descriptor_binding_partially_bound" \notin physical_device.features
    /\ NeededExtensions \subseteq physical_device.supported_extensions

C28_WitnessExtension ==
    /\ device.status = "err"
    /\ device.error = "Device extension not supported"
    /\ "VK_KHR_synchronization2" \notin physical_device.supported_extensions
    /\ NeededFeatures \subseteq physical_device.features

\* the queue families of the physical device, by 0-based index, that have all the flags
\* of with and none of without
families(with, without) ==
    LET q == physical_device.queue_family_properties
    IN  {i \in 0..(Len(q) - 1) : with \subseteq q[i + 1] /\ q[i + 1] \cap without = {}}

\* the first of a set of families, or the fallback when there is none
first_or(candidates, fallback) ==
    IF candidates = {}
    THEN fallback
    ELSE CHOOSE i \in candidates : \A j \in candidates : i <= j

\* C29: the graphics queue is of the first family that supports graphics; the compute
\* queue of the first family that supports compute and not graphics; the transfer queue of
\* the first family that supports transfer and neither graphics nor compute; the compute
\* and the transfer queue are of the graphics family when there is no such family.  With
\* no graphics family there is no Device.
C29_QueueFamilies ==
    LET graphics == first_or(families({"GRAPHICS"}, {}), 0)
    IN  /\ device.status = "ok" =>
               /\ families({"GRAPHICS"}, {}) # {}
               /\ device.graphics_queue = <<graphics>>
               /\ device.compute_queue =
                      <<first_or(families({"COMPUTE"}, {"GRAPHICS"}), graphics)>>
               /\ device.transfer_queue =
                      <<first_or(families({"TRANSFER"}, {"GRAPHICS", "COMPUTE"}), graphics)>>
        /\ (construction.of # "none" /\ families({"GRAPHICS"}, {}) = {}) =>
               /\ device.status = "err"
               /\ device.error = "Failed to find graphics queue"

C29_Witness ==
    /\ device.status = "ok"
    /\ physical_device.queue_family_properties =
           <<{"COMPUTE", "TRANSFER"}, {"GRAPHICS", "COMPUTE", "TRANSFER"}, {"TRANSFER"}>>
    /\ device.graphics_queue = <<1>>
    /\ device.compute_queue = <<0>>
    /\ device.transfer_queue = <<2>>

C29_WitnessFallback ==
    /\ device.status = "ok"
    /\ physical_device.queue_family_properties = <<{"TRANSFER"}, {"GRAPHICS", "COMPUTE"}>>
    /\ device.graphics_queue = <<1>>
    /\ device.compute_queue = <<1>>
    /\ device.transfer_queue = <<0>>

\* C30: the queue family indices handed to the creation of the logical device are the
\* chosen graphics, compute and transfer indices, each of them exactly once.
C30_UniqueQueueIndices ==
    device.status = "ok" =>
        LET q == device.queue_create_info
        IN  /\ {q[i] : i \in 1..Len(q)} =
                   {device.graphics_queue[1], device.compute_queue[1],
                    device.transfer_queue[1]}
            /\ \A i \in 1..Len(q), j \in 1..Len(q) : q[i] = q[j] => i = j

C30_Witness ==
    /\ device.status = "ok"
    /\ device.graphics_queue = device.compute_queue
    /\ device.transfer_queue # device.graphics_queue
    /\ Len(device.queue_create_info) = 2
    /\ device.queue_create_info[1] = device.transfer_queue[1]

\* C31 as it is stated: a Device is constructed only when exactly one queue family
\* supports graphics.
C31_ExactlyOneGraphicsFamily ==
    device.status = "ok" => Cardinality(families({"GRAPHICS"}, {})) = 1

\* C31: a Device is constructed only when at least one queue family supports graphics;
\* with none, construction fails with "Failed to find graphics queue", and with one or
\* with several it never fails for that reason: the first of them is the graphics family.
C31_SomeGraphicsFamily ==
    LET graphics == families({"GRAPHICS"}, {})
    IN  /\ device.status = "ok" =>
               /\ graphics # {}
               /\ device.graphics_queue = <<first_or(graphics, 0)>>
        /\ construction.of # "none" =>
               (graphics = {} <=>
                    /\ device.status = "err"
                    /\ device.error = "Failed to find graphics queue")

C31_Witness ==
    /\ device.status = "ok"
    /\ physical_device.queue_family_properties =
           <<{"TRANSFER"}, {"GRAPHICS", "COMPUTE"}, {"GRAPHICS"}>>
    /\ device.graphics_queue = <<1>>

\* ------------------------------------------- the selection on its own
\* the enumerations of an instance: up to MaxAdapters physical devices of any type
Enumerations == UNION {[1..n -> PhysicalDeviceTypes] : n \in 0..MaxAdapters}

\* RenderBackend::new before it selects the physical device
SelectInit ==
    /\ NothingConstructed
    /\ physical_device = MainPhysicalDevice
    /\ surface_support = MainSupport
    /\ desc = MainDesc
    /\ ring = builder(num_threads, primary_buffers_per_pool, secondary_buffers_per_pool)
    /\ physical_devices \in Enumerations
    /\ selection = [status |-> "none", error |-> "", raw |-> <<>>]

\* PhysicalDeviceSelector::select, enumerate_physical_devices failing or not
PhysicalDeviceSelect ==
    /\ selection.status = "none"
    /\ \E enumerate_fails \in BOOLEAN :
           selection' = select(physical_devices, enumerate_fails)
    /\ UNCHANGED <<physical_devices, shutdown_vars, reader_vars, construction_vars,
                   device_vars, graphics_timeline_semaphore, ring_vars, swapchain_vars,
                   engine_vars, submissions, pc, swapchain_image, command_buffer,
                   history_vars, resize_vars, platform_vars, res>>

SelectNext == PhysicalDeviceSelect

SelectSpec == SelectInit /\ [][SelectNext]_vars

\* ------------------------------------------------------------- claims C31..C40
\* the positions (0-based) of the enumerated physical devices with the highest key
highest ==
    {i \in 0..(Len(physical_devices) - 1) :
        \A j \in 1..Len(physical_devices) :
            device_type_key(physical_devices[j]) <= device_type_key(physical_devices[i + 1])}

\* C32: the physical device selected has the highest preference score of those
\* enumerated, and of several with the highest score it is the earliest enumerated; with
\* no physical device enumerated the selection is an error.
C32_EarliestOfHighest ==
    /\ selection.status = "ok" =>
           /\ selection.raw[1] \in highest
           /\ \A i \in highest : selection.raw[1] <= i
    /\ (selection.status # "none" /\ physical_devices = <<>>) => selection.status = "err"

\* what holds in place of C32: of several physical devices with the highest score the
\* one enumerated last is selected
C32_LatestOfHighest ==
    /\ selection.status = "ok" =>
           /\ selection.raw[1] \in highest
           /\ \A i \in highest : selection.raw[1] >= i
    /\ (selection.status # "none" /\ physical_devices = <<>>) => selection.status = "err"

C32_WitnessTie ==
    /\ physical_devices = <<"DISCRETE_GPU", "INTEGRATED_GPU", "DISCRETE_GPU">>
    /\ selection.status = "ok"
    /\ selection.raw = <<2>>

\* ------------------------------------------------------------ shutdown
\* what is dropped: a value of a type, one of the Arcs that hold a value, a native call
value(of) == [kind |-> "value", of |-> of, call |-> ""]
Arc(of) == [kind |-> "Arc", of |-> of, call |-> ""]
native_call(of, c) == [kind |-> "call", of |-> of, call |-> c]

\* the types whose values main.rs owns when the window closes, one value of each
Types ==
    {"App", "Window", "Renderer", "RenderBackend", "Swapchain", "Surface", "Device",
     "CommandRingBuffer", "RasterPipeline", "Instance", "PhysicalDevice"}

\* the fields of each struct that own something, in declaration order
fields(of) ==
    CASE of = "App" -> <<value("Window"), value("Renderer")>>
      [] of = "Renderer" ->
             <<value("RenderBackend"), value("CommandRingBuffer"), value("RasterPipeline")>>
      [] of = "RenderBackend" -> <<value("Swapchain"), Arc("Surface"), Arc("Device")>>
      [] of = "Swapchain" -> <<Arc("Device"), Arc("Surface")>>
      [] of = "CommandRingBuffer" -> <<Arc("Device")>>
      [] of = "RasterPipeline" -> <<Arc("Device")>>
      [] of = "Device" -> <<Arc("Instance"), Arc("PhysicalDevice")>>
      [] OTHER -> <<>>

\* mutant: the logical device is destroyed before what was created from it
Device_drop_device_first ==
    <<"device_wait_idle", "destroy_device", "destroy_command_pool", "destroy_semaphore",
      "destroy_debug_utils_messenger", "destroy_instance">>

\* impl Drop for Device: its calls in statement order
Device_drop ==
    <<"device_wait_idle", "destroy_command_pool", "destroy_semaphore", "destroy_device",
      "destroy_debug_utils_messenger", "destroy_instance">>

\* Drop::drop of each type that implements it: its native calls in statement order;
\* destroy_debug_utils_messenger is called if the instance has a debug_messenger
drop(of, debug_messenger) ==
    CASE of = "RenderBackend" -> <<"device_wait_idle">>
      [] of = "Swapchain" -> <<"destroy_semaphore", "destroy_swapchain">>
      [] of = "Surface" -> <<"destroy_surface">>
      [] of = "CommandRingBuffer" -> <<"destroy_command_pool">>
      [] of = "RasterPipeline" ->
             <<"destroy_descriptor_set_layout", "destroy_pipeline_layout",
               "destroy_pipeline">>
      [] of = "Device" ->
             SelectSeq(Device_drop,
                       LAMBDA c : c = "destroy_debug_utils_messenger" => debug_messenger)
      [] OTHER -> <<>>

\* drop glue of a value: Drop::drop, then the fields in declaration order
drop_in_place(of, debug_messenger) ==
    [i \in 1..Len(drop(of, debug_messenger)) |->
        native_call(of, drop(of, debug_messenger)[i])]
    \o fields(of)

\* mutant: every release of an Arc is the last one
strong_count_one(of) == 1

\* Arc::strong_count: the Arcs to the value of a type that are held and not yet dropped
strong_count(of) ==
    Cardinality({h \in Types \X (1..3) :
                    h[2] <= Len(fields(h[1])) /\ fields(h[1])[h[2]] = Arc(of)})
    - Cardinality({i \in 1..Len(dropped) : dropped[i] = Arc(of)})

\* WindowEvent::CloseRequested: event_loop.exit()
CloseRequested ==
    /\ window_event
    /\ dropped = <<>>
    /\ pc' = "exit"
    /\ UNCHANGED <<selection_vars, shutdown_vars, reader_vars, construction_vars,
                   device_vars, resize_vars, platform_vars, res,
                   graphics_timeline_semaphore, ring_vars, swapchain_vars, engine_vars,
                   submissions, swapchain_image, command_buffer, history_vars>>

\* run_app returns, or a panic unwinds out of it: main drops app
AppDrop ==
    /\ pc \in {"exit", "panicked"}
    /\ pc' = "drop"
    /\ drop_stack' = <<value("App")>>
    /\ UNCHANGED <<dropped, selection_vars, reader_vars, construction_vars,
                   device_vars, resize_vars, platform_vars, res,
                   graphics_timeline_semaphore, ring_vars, swapchain_vars, engine_vars,
                   submissions, swapchain_image, command_buffer, history_vars>>

\* the value at the head of the drop is dropped: its Drop::drop and its fields come next
DropValue ==
    /\ drop_stack # <<>>
    /\ Head(drop_stack).kind = "value"
    /\ \E debug_messenger \in BOOLEAN :
           drop_stack' =
               drop_in_place(Head(drop_stack).of, debug_messenger) \o Tail(drop_stack)
    /\ UNCHANGED <<dropped, pc, selection_vars, reader_vars, construction_vars,
                   device_vars, resize_vars, platform_vars, res,
                   graphics_timeline_semaphore, ring_vars, swapchain_vars, engine_vars,
                   submissions, swapchain_image, command_buffer, history_vars>>

\* an Arc is dropped: the value it holds is dropped with the last Arc to it
DropArc ==
    /\ drop_stack # <<>>
    /\ Head(drop_stack).kind = "Arc"
    /\ dropped' = Append(dropped, Head(drop_stack))
    /\ drop_stack' =
           IF strong_count(Head(drop_stack).of) = 1
           THEN <<value(Head(drop_stack).of)>> \o Tail(drop_stack)
           ELSE Tail(drop_stack)
    /\ UNCHANGED <<pc, selection_vars, reader_vars, construction_vars,
                   device_vars, resize_vars, platform_vars, res,
                   graphics_timeline_semaphore, ring_vars, swapchain_vars, engine_vars,
                   submissions, swapchain_image, command_buffer, history_vars>>

\* a native call of a Drop::drop returns; device_wait_idle returns once the device is idle
DropCall ==
    /\ drop_stack # <<>>
    /\ Head(drop_stack).kind = "call"
    /\ Head(drop_stack).call = "device_wait_idle" => DeviceIdle
    /\ dropped' = Append(dropped, Head(drop_stack))
    /\ drop_stack' = Tail(drop_stack)
    /\ UNCHANGED <<pc, selection_vars, reader_vars, construction_vars,
                   device_vars, resize_vars, platform_vars, res,
                   graphics_timeline_semaphore, ring_vars, swapchain_vars, engine_vars,
                   submissions, swapchain_image, command_buffer, history_vars>>

Shutdown ==
    \/ CloseRequested
    \/ AppDrop
    \/ DropValue
    \/ DropArc
    \/ DropCall

\* the program runs ShutdownFrames frames at most before the window is closed
FewFrames == absolute_frame_index' <= ShutdownFrames

ShutdownNext == (Next /\ FewFrames) \/ Shutdown

ShutdownSpec == Init /\ [][ShutdownNext]_vars

\* the Drop::drop of a type has made the native call c
done(of, c) == \E i \in 1..Len(dropped) : dropped[i] = native_call(of, c)

\* the native calls Drop::drop of Device has made so far, in order
device_dropped ==
    LET d == SelectSeq(dropped, LAMBDA e : e.kind = "call" /\ e.of = "Device")
    IN  [i \in 1..Len(d) |-> d[i].call]

\* C33: at shutdown the swap chain is destroyed before the surface, the surface before
\* the logical device and the logical device before the instance; the device is destroyed
\* only after the surface, the swap chain and its semaphores, the pools of the command
\* ring and the pipeline are destroyed and the GPU work is waited for.
C33_ShutdownOrder ==
    /\ done("Surface", "destroy_surface") => done("Swapchain", "destroy_swapchain")
    /\ done("Device", "destroy_device") =>
           /\ done("Surface", "destroy_surface")
           /\ done("Swapchain", "destroy_swapchain")
           /\ done("Swapchain", "destroy_semaphore")
           /\ done("CommandRingBuffer", "destroy_command_pool")
           /\ done("RasterPipeline", "destroy_descriptor_set_layout")
           /\ done("RasterPipeline", "destroy_pipeline_layout")
           /\ done("RasterPipeline", "destroy_pipeline")
           /\ done("Device", "device_wait_idle")
           /\ unretired = {}
    /\ done("Device", "destroy_instance") => done("Device", "destroy_device")

\* C33 witness: the window was closed after a frame and everything is dropped
C33_Witness ==
    /\ pc = "drop"
    /\ drop_stack = <<>>
    /\ finish_frame_calls >= 1
    /\ done("Device", "destroy_instance")
    /\ "present_image" \in made

\* C33 witness: the same after a panic in the frame
C33_WitnessUnwind ==
    /\ pc = "drop"
    /\ drop_stack = <<>>
    /\ done("Device", "destroy_instance")
    /\ "present_image" \notin made
    /\ "acquire_next_image" \in made

\* C34: Drop::drop of Device waits for the device to be idle first and then destroys
\* its command pools, the pacing semaphore, the logical device, the debug messenger if
\* there is one, and the instance, in this order.
C34_DeviceDropOrder ==
    /\ \E debug_messenger \in SUBSET {"destroy_debug_utils_messenger"} :
           IsPrefix(device_dropped,
                    SelectSeq(<<"device_wait_idle", "destroy_command_pool",
                                "destroy_semaphore", "destroy_device",
                                "destroy_debug_utils_messenger", "destroy_instance">>,
                              LAMBDA c : c \in debug_messenger
                                         \/ c # "destroy_debug_utils_messenger"))
    /\ device_dropped # <<>> => unretired = {}

\* C34 witness: the Device of a program that submitted work is dropped, an instance with
\* a debug messenger
C34_Witness ==
    /\ device_dropped =
           <<"device_wait_idle", "destroy_command_pool", "destroy_semaphore",
             "destroy_device", "destroy_debug_utils_messenger", "destroy_instance">>
    /\ Len(submissions) >= 2

\* ------------------------------------------- a second thread reading the counter
\* Device::absolute_frame_index(&self) called from a second thread, at any time
AbsoluteFrameIndex ==
    /\ observed' = <<load(absolute_frame_index)>>
    /\ UNCHANGED <<selection_vars, shutdown_vars, construction_vars, device_vars,
                   ring_vars, backend_vars>>

ReaderNext == RingNext \/ AbsoluteFrameIndex

ReaderSpec == RingInit /\ [][ReaderNext]_vars

\* C35: a load of absolute_frame_index concurrent with finish_frame returns the whole
\* counter as it is before or after an increment, never a value the counter did not have,
\* and the loads of one reader never decrease.
C35_LoadsAtomicAndMonotonic ==
    /\ [](observed # <<>> => observed[1] \in 0..absolute_frame_index)
    /\ [][AbsoluteFrameIndex =>
            /\ observed'[1] = absolute_frame_index
            /\ observed # <<>> => observed'[1] >= observed[1]]_vars

\* C35 witness: the reader loaded 1, and finish_frame has incremented the counter since
C35_Witness ==
    /\ observed = <<1>>
    /\ absolute_frame_index = 2
    /\ ring.status = "built"

allocated_from(q) ==
    {k \in 0..(ring.primary_buffers - 1) :
        k \div ring.primary_buffers_per_pool = q}

\* C38: the buffer get_next_primary_buffer returns to thread t in frame f is one
\* allocated from the pool of t and slot f mod FRAMES_IN_FLIGHT; it is the one at the
\* position that counts the buffers handed out since the pool's reset, so no buffer is
\* returned twice between two resets; and it is none of the buffers of the pool of frame
\* f - 1.
C38_PrimaryBuffersDistinct ==
    [][(RingGetPrimary /\ last_op'.ok) =>
          LET t == caller_thread
              q == t * FRAMES_IN_FLIGHT + (absolute_frame_index % FRAMES_IN_FLIGHT)
              before == t * FRAMES_IN_FLIGHT
                            + ((absolute_frame_index + FRAMES_IN_FLIGHT - 1)
                                   % FRAMES_IN_FLIGHT)
          IN  /\ last_op'.cmd_index \in allocated_from(q)
              /\ last_op'.cmd_index =
                     q * ring.primary_buffers_per_pool + handed_primary[q]
              /\ handed_primary'[q] = handed_primary[q] + 1
              /\ handed_primary[q] < ring.primary_buffers_per_pool
              /\ last_op'.cmd_index \notin allocated_from(before)
      ]_vars

\* C38 witness: the second buffer of the pool of thread 1 and slot 1 was returned
C38_Witness ==
    /\ last_op.op = "get_next_primary_buffer"
    /\ last_op.ok
    /\ caller_thread = 1
    /\ absolute_frame_index = 1
    /\ ring.primary_buffers_per_pool = 2
    /\ last_op.cmd_index = 7
    /\ handed_primary[FRAMES_IN_FLIGHT] = 2

\* ------------------------------------------- a ring of the largest capacities
\* the counts around u8::MAX, and the smallest ones
CursorCounts == {0, 1, u8_MAX, u8_MAX + 1}

\* a builder for one thread with counts around u8::MAX
CursorInit ==
    /\ RingInit
    /\ ring.num_threads = 1
    /\ ring.primary_buffers_per_pool \in CursorCounts
    /\ ring.secondary_buffers_per_pool \in CursorCounts
    /\ caller_thread = 0

\* get_next_primary_buffer(caller_thread), as often as the caller likes
CursorGetPrimary ==
    /\ RingUsable
    /\ ThreadInRange
    /\ get_next_primary_buffer(caller_thread)
    /\ UNCHANGED <<selection_vars, shutdown_vars, reader_vars, construction_vars,
                   device_vars, backend_vars>>

\* get_next_secondary_buffer(caller_thread), as often as the caller likes
CursorGetSecondary ==
    /\ RingUsable
    /\ ThreadInRange
    /\ get_next_secondary_buffer(caller_thread)
    /\ UNCHANGED <<selection_vars, shutdown_vars, reader_vars, construction_vars,
                   device_vars, backend_vars>>

CursorNext ==
    \/ RingBuild
    \/ RingResetPool
    \/ CursorGetPrimary
    \/ CursorGetSecondary

CursorSpec == CursorInit /\ [][CursorNext]_vars

\* C40: the primary cursor of every pool is at most the primary capacity and the
\* secondary cursor at most the secondary capacity, both at most 255, and each cursor is
\* the number of buffers handed out since the reset: the increment never wraps around.
C40_CursorsWithinCapacity ==
    ring.status = "built" =>
        /\ ring.primary_buffers_per_pool <= 255
        /\ ring.secondary_buffers_per_pool <= 255
        /\ \A q \in DOMAIN used_primary_offset :
               /\ used_primary_offset[q] <= ring.primary_buffers_per_pool
               /\ used_secondary_offset[q] <= ring.secondary_buffers_per_pool
               /\ used_primary_offset[q] = handed_primary[q]
               /\ used_secondary_offset[q] = handed_secondary[q]

\* C40 witness: both cursors of a pool stand at 255 and the call for one more buffer
\* has failed
C40_Witness ==
    /\ ring.status = "built"
    /\ used_primary_offset[0] = 255
    /\ used_secondary_offset[0] = 255
    /\ last_op.op = "get_next_secondary_buffer"
    /\ ~last_op.ok

\* C37: whatever resizes and acquisitions came before, acquire_next_image divides by a
\* number of images above zero and the index it selects, cursor mod number of images, is
\* a position of the sync-pair array.
C37_SyncIndexInRange ==
    [][AcquireNextImage =>
          /\ len(images) > 0
          /\ (sync_index + 1) % len(images) \in DOMAIN syncs]_vars

\* the part of C37 that holds: the Swapchain always has an image, the divisor is never 0
C37_ImagesNonEmpty == len(images) > 0 /\ len(syncs) > 0

\* C39: when a submission that signals a present semaphore is made, no earlier present
\* request that waits on that semaphore is still queued in the presentation engine,
\* whatever images the platform returned.
C39_PresentSemaphoreFree ==
    [][Submit =>
          \A p \in presents :
              p.wait # swapchain_image[1].sync.present_semaphore]_vars

====
